---------------------------- MODULE Spec2Model ----------------------------
(***************************************************************************)
(* A model of the SO101 pilot pipeline's episode-extraction and validation *)
(* layer (scripts/lib/hdf5_adapter.py) and of the stages that consume it   *)
(* (scripts/00a_validate_transfer.py, scripts/02_export_mp4_from_hdf5.py), *)
(* of the promotion stage (scripts/01_lerobot_to_hdf5.py), of the job      *)
(* bundle builder (scripts/03_run_transfer.py) and of the sampling of      *)
(* scripts/06_run_reason_labels.py.                                        *)
(*                                                                         *)
(* Text is modelled as a sequence of characters, a character being a       *)
(* one-token string, so that str.isdigit, int(), str.split and the path    *)
(* join are computed the way the interpreter computes them.                *)
(***************************************************************************)
EXTENDS Integers, Sequences, FiniteSets, TLC

VARIABLES
    dataset,        \* the HDF5 file: [hasEpisodes, keys, eps]
    video_root,     \* the caller's --video-root, a path
    hashOf,         \* this interpreter process's str hash (PYTHONHASHSEED)
    proc,           \* which interpreter process is running (1, 2, ...)
    iterPc,         \* the generator: "idle", "running", "done", "error"
    pending,        \* the generator's sorted key list still to visit
    yielded,        \* the views the running generator has yielded so far
    iterErr,        \* the exception that ended the generator, or "none"
    history,        \* the finished invocations: [proc, views, err]
    raw_video_path, \* resolve_video_path's argument
    resolved,       \* resolve_video_path's result, or the token NoPath
    structure,      \* assert_required_structure's outcome, or NotCalled
    episode_in,     \* validate_episode_arrays's argument
    validation,     \* validate_episode_arrays's outcome, or NotCalled
    args,           \* the stage and its command line
    pc,             \* where main() stands
    handle,         \* the h5py.File: "unopened", "open", "closed"
    episode_views,  \* list(iter_episode_views(...))
    cursor,         \* the loop's position in episode_views
    issue_records,  \* 00a: the issue records collected so far
    manifest_rows,  \* the manifest lines (00a) or rows (02) collected so far
    checksums,      \* 02: the output names checksummed so far
    counters,       \* 02: exported, skipped_existing, missing, failed
    encoder_calls,  \* 02: the episode keys ffmpeg was invoked for
    fsys,           \* the file system the stage sees and writes
    exit,           \* "running", "0", "SystemExit(1)", or the exception
    incoming_hdf5,  \* 01: the content of --incoming-hdf5, or "absent"
    canonical_hdf5, \* 01: the content of --canonical-hdf5, or "absent"
    meta_out,       \* 01: the metadata file
    force,          \* 01: --force
    promotePc,      \* 01: where main() stands
    promoteExit,    \* 01: "running", "0", or the SystemExit message
    source_hash,    \* 01: sha256 of the incoming file, once computed
    copies,         \* 01: the shutil.copy2 calls of this run
    before,         \* 01: the canonical and metadata files as this run found them
    promote_runs,   \* 01: the runs that have ended: [exit, copies, canonical]
    jobs,           \* 06: the rows of the transfer jobs manifest
    task_by_demo_id,\* 06: the task text of each demo id that has one
    ratio,          \* 06: --augmented-sample-ratio, a fraction [num, den]
    max_items,      \* 06: --augmented-sample-max, or NoCap
    samplePc,       \* 06: where _sample_augmented_jobs stands
    grouped,        \* 06: the groups still to sample, by sorted task text
    sampled,        \* 06: the positions in jobs sampled so far
    sample_out,     \* 06: what the call returned or raised
    bundle_args,    \* 03: the command line
    listing,        \* 03: the directory's entries, in the order it lists them
    bundlePc,       \* 03: where main() stands
    input_videos,   \* 03: sorted(args.input_videos_dir.glob(args.video_glob))
    video_idx,      \* 03: the outer loop's position in input_videos
    variant_idx,    \* 03: the inner loop's variable
    job_id,         \* 03: the job counter
    job_lines,      \* 03: the job records collected so far
    expected_lines, \* 03: the expected-output records collected so far
    checksum_lines, \* 03: the names of the videos checksummed so far
    unique_demo_ids,\* 03: the demo ids seen so far
    bundle_files,   \* 03: the run directory: request files and manifests
    bundleExit      \* 03: "running", "0", the SystemExit message or exception

envVars     == <<dataset, video_root, hashOf, proc>>
iterVars    == <<iterPc, pending, yielded, iterErr, history>>
resolveVars == <<raw_video_path, resolved>>
structVars  == <<structure>>
validVars   == <<episode_in, validation>>
stageVars   == <<args, pc, handle, episode_views, cursor, issue_records,
                 manifest_rows, checksums, counters, encoder_calls, fsys, exit>>
promoteVars == <<incoming_hdf5, canonical_hdf5, meta_out, force, promotePc,
                 promoteExit, source_hash, copies, before, promote_runs>>
sampleVars  == <<jobs, task_by_demo_id, ratio, max_items, samplePc, grouped,
                 sampled, sample_out>>
bundleVars  == <<bundle_args, listing, bundlePc, input_videos, video_idx,
                 variant_idx, job_id, job_lines, expected_lines, checksum_lines,
                 unique_demo_ids, bundle_files, bundleExit>>
toolVars    == <<promoteVars, sampleVars, bundleVars>>
vars        == <<envVars, iterVars, resolveVars, structVars, validVars, stageVars,
                 toolVars>>

\* What each group of actions leaves alone.
notIterVars    == <<resolveVars, structVars, validVars, stageVars, toolVars>>
notResolveVars == <<dataset, hashOf, proc, iterVars, structVars, validVars, stageVars, toolVars>>
notStructVars  == <<iterVars, resolveVars, validVars, stageVars, toolVars>>
notValidVars   == <<envVars, iterVars, resolveVars, structVars, stageVars, toolVars>>

---------------------------------------------------------------------------
(* Bounds of the model.                                                    *)

MaxEpisodes == 2    \* episodes in one dataset
MaxHash     == 2    \* str hashes range over -MaxHash..MaxHash
MaxChunks   == 4    \* pieces a raw video path is assembled from
MaxLen      == 3    \* steps of an episode's arrays
MaxMissing  == 2    \* required paths one episode may lack
MaxReruns   == 1    \* times the promotion stage is run again
MaxJobs     == 3    \* rows of the transfer jobs manifest
MaxVideos   == 3    \* entries of the input videos directory
MaxVariants == 2    \* --variants-per-demo

---------------------------------------------------------------------------
(* Generic helpers.                                                        *)

Abs(n) == IF n < 0 THEN -n ELSE n

Range(s) == {s[i] : i \in 1..Len(s)}

RECURSIVE Concat(_)
Concat(ss) == IF ss = <<>> THEN <<>> ELSE Head(ss) \o Concat(Tail(ss))

\* All sequences over S of length at most n.
SeqsUpTo(S, n) == UNION {[1..k -> S] : k \in 0..n}

\* All sequences over S of length at most n without a repeated element.
DistinctSeqsUpTo(S, n) ==
    {s \in SeqsUpTo(S, n) : \A i, j \in 1..Len(s) : i # j => s[i] # s[j]}

---------------------------------------------------------------------------
(* Episode keys: str.isdigit, int() and hash().                            *)

\* The ASCII decimal digits, which int() accepts.
DecimalChars == {"0", "1", "2", "3", "4", "5", "6", "7", "8", "9"}

\* "sup2" stands for U+00B2 (superscript two): str.isdigit() is true of it,
\* as of every character of Unicode category No with a digit value, while
\* int() raises ValueError on it.
DigitChars == DecimalChars \cup {"sup2"}

DigitValue(c) ==
    CASE c = "0" -> 0 [] c = "1" -> 1 [] c = "2" -> 2 [] c = "3" -> 3
      [] c = "4" -> 4 [] c = "5" -> 5 [] c = "6" -> 6 [] c = "7" -> 7
      [] c = "8" -> 8 [] c = "9" -> 9

\* str.isdigit(): non-empty and every character a digit.
IsDigit(key) == Len(key) > 0 /\ \A i \in 1..Len(key) : key[i] \in DigitChars

\* int(key) raises ValueError ("invalid literal for int() with base 10").
IntRaises(key) == Len(key) = 0 \/ \E i \in 1..Len(key) : key[i] \notin DecimalChars

\* int(key), base 10, for a key of decimal digits (leading zeros allowed).
RECURSIVE IntOf(_)
IntOf(key) ==
    IF key = <<>> THEN 0
    ELSE 10 * IntOf(SubSeq(key, 1, Len(key) - 1)) + DigitValue(key[Len(key)])

\* The episode keys the model draws from.
KeyUniverse ==
    { <<"1">>, <<"2">>, <<"1", "0">>, <<"0", "1">>,
      <<"a">>, <<"1", "a">>, <<"sup2">> }

NonDigitKeys == {k \in KeyUniverse : ~IsDigit(k)}

\* A hash of more decimal digits than four, as most hashes of a 64-bit
\* build are.
WideHash == 123456

\* hash(str) is a signed machine integer and never -1.
HashVals == (((-MaxHash)..MaxHash) \ {-1}) \cup {WideHash}

\* _sort_key raises when isdigit() holds and int() rejects the key.
SortKeyRaises(key) == IsDigit(key) /\ IntRaises(key)

SortKey(key) == IF IsDigit(key) THEN IntOf(key) ELSE Abs(hashOf[key])

\* sorted(keys, key=_sort_key): a stable sort, equal sort keys keep the
\* order the container enumerates them in.
RECURSIVE InsertByKey(_, _)
InsertByKey(k, s) ==
    IF s = <<>> THEN <<k>>
    ELSE IF SortKey(Head(s)) <= SortKey(k)
         THEN <<Head(s)>> \o InsertByKey(k, Tail(s))
         ELSE <<k>> \o s

\* A variant that keeps the container's own enumeration order.
SortedKeysUnsorted(keys) == keys

RECURSIVE SortedKeys(_)
SortedKeys(keys) ==
    IF keys = <<>> THEN <<>>
    ELSE InsertByKey(keys[Len(keys)], SortedKeys(SubSeq(keys, 1, Len(keys) - 1)))

SortRaises(keys) == \E i \in 1..Len(keys) : SortKeyRaises(keys[i])

---------------------------------------------------------------------------
(* Paths: str.split on the marker and pathlib's join.                      *)

\* VIDEO_PATH_MARKER = "videos/"
VIDEO_PATH_MARKER == <<"v", "i", "d", "e", "o", "s", "/">>

OccursAt(s, m, i) == i >= 1 /\ i + Len(m) - 1 <= Len(s) /\ SubSeq(s, i, i + Len(m) - 1) = m

\* str.find: the least index at or after i where m occurs in s, 0 if none.
RECURSIVE FindFrom(_, _, _)
FindFrom(s, m, i) ==
    IF i + Len(m) - 1 > Len(s) THEN 0
    ELSE IF OccursAt(s, m, i) THEN i
    ELSE FindFrom(s, m, i + 1)

\* The greatest index where m occurs in s, 0 if none (str.rfind).
RECURSIVE FindLastFrom(_, _, _)
FindLastFrom(s, m, i) ==
    IF i < 1 THEN 0
    ELSE IF OccursAt(s, m, i) THEN i
    ELSE FindLastFrom(s, m, i - 1)

\* `m in s`
Contains(s, m) == FindFrom(s, m, 1) # 0

\* s.split(m, 1)[1]: the text after the first occurrence of m.
SplitOnceAfter(s, m) == SubSeq(s, FindFrom(s, m, 1) + Len(m), Len(s))

\* s.rsplit(m, 1)[1]: the text after the last occurrence of m.
RSplitOnceAfter(s, m) == SubSeq(s, FindLastFrom(s, m, Len(s)) + Len(m), Len(s))

\* s.split("/"): the components between slashes, empty ones included.
RECURSIVE SplitSlash(_, _)
SplitSlash(s, cur) ==
    IF s = <<>> THEN <<cur>>
    ELSE IF Head(s) = "/" THEN <<cur>> \o SplitSlash(Tail(s), <<>>)
    ELSE SplitSlash(Tail(s), Append(cur, Head(s)))

RECURSIVE LeadingSlashes(_)
LeadingSlashes(s) ==
    IF s # <<>> /\ Head(s) = "/" THEN 1 + LeadingSlashes(Tail(s)) ELSE 0

\* PurePosixPath(s): the anchor ("" relative, "/" absolute, "//" for exactly
\* two leading slashes) and the components, empty and "." ones dropped.
PathOf(s) ==
    LET n == LeadingSlashes(s)
    IN [anchor |-> IF n = 0 THEN "" ELSE IF n = 2 THEN "//" ELSE "/",
        parts  |-> SelectSeq(SplitSlash(s, <<>>), LAMBDA c : c # <<>> /\ c # <<".">>)]

\* root / rel: an anchored (absolute) right operand replaces the left one.
PathJoin(root, rel) ==
    LET p == PathOf(rel)
    IN IF p.anchor # "" THEN p
       ELSE [anchor |-> root.anchor, parts |-> root.parts \o p.parts]

ResolveVideoPathLast(root, raw) ==
    PathJoin(root, IF Contains(raw, VIDEO_PATH_MARKER)
                   THEN RSplitOnceAfter(raw, VIDEO_PATH_MARKER) ELSE raw)

ResolveVideoPath(root, raw) ==
    LET rel == IF Contains(raw, VIDEO_PATH_MARKER)
               THEN SplitOnceAfter(raw, VIDEO_PATH_MARKER)
               ELSE raw
    IN PathJoin(root, rel)

\* The pieces raw video paths are assembled from, and the roots.
PathChunks == { VIDEO_PATH_MARKER, <<"v", "i", "d", "e", "o", "s">>, <<"/">>, <<"a">> }

RawPaths == {Concat(cs) : cs \in SeqsUpTo(PathChunks, MaxChunks)}

VideoRoots == { PathOf(<<"r">>), PathOf(<<"/", "m", "/", "r">>) }

NoPath == [anchor |-> "none", parts |-> <<>>]

---------------------------------------------------------------------------
(* The dataset: episodes, their required paths and their fields.           *)

\* required_episode_paths(), in the order the tuple lists them.
required_episode_paths ==
    << "action/delta_eef", "obs/proprio", "obs/eef_pose",
       "meta/frame_index", "meta/timestamps", "meta/task_text",
       "meta/video/path", "meta/video/from_timestamp",
       "meta/video/to_timestamp", "meta/video/fps" >>

RequiredPathSet == Range(required_episode_paths)

\* A float: finite (with its value), NaN, or an infinity.
Fin(v) == [cls |-> "fin", v |-> v]
NaN    == [cls |-> "nan", v |-> 0]
PosInf == [cls |-> "inf", v |-> 0]
NegInf == [cls |-> "ninf", v |-> 0]

\* A stored scalar string: raw bytes, a zero-dimensional array, or a str.
StoredText(kind, text) == [kind |-> kind, text |-> text]

\* decode_scalar_string: bytes are decoded, a zero-dimensional array is
\* unwrapped, anything else goes through str(); each gives the text.
decode_scalar_string(raw) ==
    CASE raw.kind = "bytes"  -> raw.text
      [] raw.kind = "array0" -> raw.text
      [] OTHER               -> raw.text

\* "d/videos/observation.images.front/a.mp4"
FrontVideoPath ==
    <<"d", "/">> \o VIDEO_PATH_MARKER \o
    <<"o", "b", "s", "e", "r", "v", "a", "t", "i", "o", "n", ".", "i", "m", "a", "g", "e", "s", ".", "f", "r", "o", "n", "t">> \o
    <<"/", "a", ".", "m", "p", "4">>

\* An episode with every required path and conformant arrays of two steps.
ConformantEpisode ==
    [ present        |-> RequiredPathSet,
      delta_eef      |-> [shape |-> <<2, 6>>, finite |-> TRUE],
      proprio        |-> [len |-> 2, finite |-> TRUE],
      eef_pose       |-> [len |-> 2, finite |-> TRUE],
      frame_index    |-> <<0, 1>>,
      timestamps     |-> <<Fin(0), Fin(1)>>,
      task_text      |-> StoredText("bytes", "pick"),
      video_path     |-> FrontVideoPath,
      from_timestamp |-> 0,
      to_timestamp   |-> 1,
      fps            |-> 30 ]

Without(ep, paths) == [ep EXCEPT !.present = @ \ paths]

\* A dataset that has no top-level "episodes" group.
NoEpisodesDataset == [hasEpisodes |-> FALSE, keys |-> <<>>, eps |-> <<>>]

\* The datasets whose key enumeration is one of keySeqs and whose episodes
\* are drawn from episodeChoices.
DatasetsOver(keySeqs, episodeChoices) ==
    {NoEpisodesDataset} \cup
    UNION { {[hasEpisodes |-> TRUE, keys |-> ks, eps |-> e] :
                e \in [Range(ks) -> episodeChoices]} : ks \in keySeqs }

KeySeqs == DistinctSeqsUpTo(KeyUniverse, MaxEpisodes)

\* The str hashes one interpreter process may have; the hash of a key that
\* the dataset does not hold is never asked for and is fixed to 0.
HashChoices(ds) ==
    {h \in [NonDigitKeys -> HashVals] :
        \A k \in NonDigitKeys \ Range(ds.keys) : h[k] = 0}

---------------------------------------------------------------------------
(* hdf5_adapter: get_episode_group, assert_required_structure.             *)

NotCalled == [err |-> "not_called"]

\* get_episode_group raises ValueError("Unsupported schema ...").
GetEpisodeGroupRaises(ds) == ~ds.hasEpisodes

\* Only the first absent path is reported.
MissingPathsFirstOnly(ep) ==
    LET all == SelectSeq(required_episode_paths, LAMBDA path : path \notin ep.present)
    IN IF all = <<>> THEN <<>> ELSE <<Head(all)>>

\* missing = [path for path in required_episode_paths() if path not in first_episode]
MissingPaths(ep) ==
    SelectSeq(required_episode_paths, LAMBDA path : path \notin ep.present)

\* The last key of the sorted list is taken as the representative.
FirstKeyLast(ds) == LET ks == SortedKeys(ds.keys) IN ks[Len(ks)]

FirstKey(ds) == SortedKeys(ds.keys)[1]

\* A variant without the zero-episodes check: sorted(...)[0] then raises
\* IndexError on the empty list.
AssertRequiredStructureNoEmptyCheck(ds) ==
    IF GetEpisodeGroupRaises(ds)
    THEN [err |-> "ValueError: unsupported schema", first_key |-> <<>>,
          missing |-> <<>>, read |-> {}]
    ELSE IF SortRaises(ds.keys)
    THEN [err |-> "ValueError: invalid literal for int()", first_key |-> <<>>,
          missing |-> <<>>, read |-> {}]
    ELSE IF Len(ds.keys) = 0
    THEN [err |-> "IndexError", first_key |-> <<>>, missing |-> <<>>, read |-> {}]
    ELSE LET first_key == FirstKey(ds)
             missing   == MissingPaths(ds.eps[first_key])
         IN [err       |-> IF missing # <<>> THEN "ValueError: missing required paths"
                           ELSE "none",
             first_key |-> first_key,
             missing   |-> missing,
             read      |-> {first_key}]

\* assert_required_structure(dataset): err is "none" when it returns, else
\* the exception; read is the set of episodes it opened.
AssertRequiredStructure(ds) ==
    IF GetEpisodeGroupRaises(ds)
    THEN [err |-> "ValueError: unsupported schema", first_key |-> <<>>,
          missing |-> <<>>, read |-> {}]
    ELSE IF Len(ds.keys) = 0
    THEN [err |-> "ValueError: zero episodes", first_key |-> <<>>,
          missing |-> <<>>, read |-> {}]
    ELSE IF SortRaises(ds.keys)
    THEN [err |-> "ValueError: invalid literal for int()", first_key |-> <<>>,
          missing |-> <<>>, read |-> {}]
    ELSE LET first_key == FirstKey(ds)
             missing   == MissingPaths(ds.eps[first_key])
         IN [err       |-> IF missing # <<>> THEN "ValueError: missing required paths"
                           ELSE "none",
             first_key |-> first_key,
             missing   |-> missing,
             read      |-> {first_key}]

---------------------------------------------------------------------------
(* hdf5_adapter: iter_episode_views, a generator.                          *)

\* The paths the loop body reads of each episode.
IterReadPaths ==
    { "action/delta_eef", "meta/task_text", "meta/video/path",
      "meta/video/from_timestamp", "meta/video/to_timestamp", "meta/video/fps" }

\* The exception the loop body raises on an episode, or "none": KeyError on
\* an absent path, IndexError on shape[0] of a zero-dimensional action array.
IterReadError(ep) ==
    IF ~(IterReadPaths \subseteq ep.present) THEN "KeyError"
    ELSE IF ep.delta_eef.shape = <<>> THEN "IndexError"
    ELSE "none"

\* The hash is used as it comes, without abs().
DemoIdNoAbs(key) == IF IsDigit(key) THEN IntOf(key) ELSE hashOf[key]

DemoId(key) == IF IsDigit(key) THEN IntOf(key) ELSE SortKey(key)

BuildView(key, ep, root) ==
    [ episode_key         |-> key,
      demo_id             |-> DemoId(key),
      num_steps           |-> ep.delta_eef.shape[1],
      task_text           |-> decode_scalar_string(ep.task_text),
      video_path_hdf5     |-> ep.video_path,
      video_path_resolved |-> ResolveVideoPath(root, ep.video_path),
      from_timestamp      |-> ep.from_timestamp,
      to_timestamp        |-> ep.to_timestamp,
      fps                 |-> ep.fps ]

Finished(views, err) == [proc |-> proc, views |-> views, err |-> err]

\* The first next() on a fresh generator: get_episode_group and sorted().
IterStart ==
    /\ iterPc \in {"idle", "done", "error"}
    /\ Len(history) < 2
    /\ yielded' = <<>>
    /\ IF GetEpisodeGroupRaises(dataset)
       THEN /\ iterPc' = "error"
            /\ iterErr' = "ValueError: unsupported schema"
            /\ pending' = <<>>
            /\ history' = Append(history, Finished(<<>>, iterErr'))
       ELSE IF SortRaises(dataset.keys)
       THEN /\ iterPc' = "error"
            /\ iterErr' = "ValueError: invalid literal for int()"
            /\ pending' = <<>>
            /\ history' = Append(history, Finished(<<>>, iterErr'))
       ELSE /\ iterPc' = "running"
            /\ iterErr' = "none"
            /\ pending' = SortedKeys(dataset.keys)
            /\ history' = history
    /\ UNCHANGED <<envVars, notIterVars>>

\* One turn of the loop: read the next episode and yield its view, or raise.
IterNext ==
    /\ iterPc = "running"
    /\ pending # <<>>
    /\ LET episode_key == Head(pending)
           episode     == dataset.eps[episode_key]
           error       == IterReadError(episode)
       IN IF error # "none"
          THEN /\ iterPc' = "error"
               /\ iterErr' = error
               /\ history' = Append(history, Finished(yielded, error))
               /\ UNCHANGED <<pending, yielded>>
          ELSE /\ yielded' = Append(yielded, BuildView(episode_key, episode, video_root))
               /\ pending' = Tail(pending)
               /\ UNCHANGED <<iterPc, iterErr, history>>
    /\ UNCHANGED <<envVars, notIterVars>>

\* The sorted list is exhausted: the generator returns.
IterStop ==
    /\ iterPc = "running"
    /\ pending = <<>>
    /\ iterPc' = "done"
    /\ history' = Append(history, Finished(yielded, "none"))
    /\ UNCHANGED <<pending, yielded, iterErr, envVars, notIterVars>>

\* The interpreter exits and a new one starts, with a new str hash seed
\* (hash randomization is on unless PYTHONHASHSEED fixes it).
RestartProcess ==
    /\ iterPc \in {"done", "error"}
    /\ Len(history) < 2
    /\ proc = 1
    /\ proc' = proc + 1
    /\ hashOf' \in HashChoices(dataset)
    /\ iterPc' = "idle"
    /\ yielded' = <<>>
    /\ iterErr' = "none"
    /\ UNCHANGED <<pending, history, dataset, video_root, notIterVars>>

---------------------------------------------------------------------------
(* hdf5_adapter: resolve_video_path as a call.                             *)

Resolve ==
    /\ resolved = NoPath
    /\ resolved' = ResolveVideoPath(video_root, raw_video_path)
    /\ UNCHANGED <<raw_video_path, video_root, notResolveVars>>

\* assert_required_structure as a call.
CallAssert ==
    /\ structure = NotCalled
    /\ structure' = AssertRequiredStructure(dataset)
    /\ UNCHANGED <<envVars, notStructVars>>

---------------------------------------------------------------------------
(* Specifications.                                                         *)

IterIdle ==
    /\ iterPc = "idle" /\ pending = <<>> /\ yielded = <<>>
    /\ iterErr = "none" /\ history = <<>>

ResolveIdle == raw_video_path = <<>> /\ resolved = NoPath

StructIdle == structure = NotCalled

ValidIdle == episode_in = ConformantEpisode /\ validation = NotCalled

NoFiles == [hdf5 |-> TRUE, root |-> TRUE, videos |-> {}, outputs |-> {},
            manifest |-> "absent", report |-> "absent", checksums |-> "absent"]

NoCounters == [source_videos |-> {}, exported_count |-> 0, skipped_existing |-> 0,
               missing_sources |-> 0, failed_exports |-> 0]

NoCap == [given |-> FALSE, n |-> 0]

\* No metadata file.
NoMeta == [written |-> FALSE]

PromoteIdle ==
    /\ incoming_hdf5 = "absent" /\ canonical_hdf5 = "absent" /\ meta_out = NoMeta
    /\ force = FALSE /\ promotePc = "idle" /\ promoteExit = "running"
    /\ source_hash = <<>> /\ copies = 0
    /\ before = [canonical |-> "absent", meta |-> NoMeta]
    /\ promote_runs = <<>>

SampleIdle ==
    /\ jobs = <<>> /\ task_by_demo_id = <<>> /\ ratio = [num |-> 0, den |-> 1]
    /\ max_items = NoCap /\ samplePc = "idle" /\ grouped = <<>> /\ sampled = {}
    /\ sample_out = NotCalled

\* A run directory nothing has been written to.
NoBundleFiles == [requests |-> {}, jobs |-> "absent", expected |-> "absent",
                  checksums |-> "absent", metadata |-> "absent"]

BundleIdle ==
    /\ bundle_args = [video_glob |-> <<>>, variants_per_demo |-> 0, base_seed |-> 0,
                      prompt_profiles |-> <<>>]
    /\ listing = <<>> /\ bundlePc = "idle" /\ input_videos = <<>>
    /\ video_idx = 1 /\ variant_idx = 0 /\ job_id = 0
    /\ job_lines = <<>> /\ expected_lines = <<>> /\ checksum_lines = <<>>
    /\ unique_demo_ids = {} /\ bundle_files = NoBundleFiles
    /\ bundleExit = "running"

ToolsIdle == PromoteIdle /\ SampleIdle /\ BundleIdle

StageIdle ==
    /\ args = [stage |-> "none", overwrite |-> FALSE, dry_run |-> FALSE,
               max_episodes |-> NoCap]
    /\ pc = "start" /\ handle = "unopened" /\ episode_views = <<>> /\ cursor = 1
    /\ issue_records = <<>> /\ manifest_rows = <<>> /\ checksums = <<>>
    /\ counters = NoCounters /\ encoder_calls = <<>> /\ fsys = NoFiles
    /\ exit = "running"

\* The episodes the iterator is run over: a conformant one, one whose
\* meta/video/fps is absent, one whose obs/proprio (which the iterator does
\* not read) is absent, and one whose action array is zero-dimensional.
IterEpisodes ==
    { ConformantEpisode,
      Without(ConformantEpisode, {"meta/video/fps"}),
      Without(ConformantEpisode, {"obs/proprio"}),
      [ConformantEpisode EXCEPT !.delta_eef = [shape |-> <<>>, finite |-> TRUE]] }

InitIter ==
    /\ dataset \in DatasetsOver(KeySeqs, IterEpisodes)
    /\ video_root \in VideoRoots
    /\ hashOf \in HashChoices(dataset)
    /\ proc = 1
    /\ IterIdle /\ ResolveIdle /\ StructIdle /\ ValidIdle /\ StageIdle /\ ToolsIdle

NextIter == IterStart \/ IterNext \/ IterStop

\* One interpreter process invoking the iterator.
SpecIter == InitIter /\ [][NextIter]_vars

\* The iterator invoked in one process and again in the same or in a new one.
SpecProc == InitIter /\ [][NextIter \/ RestartProcess]_vars

InitResolve ==
    /\ raw_video_path \in RawPaths
    /\ video_root \in VideoRoots
    /\ resolved = NoPath
    /\ dataset = NoEpisodesDataset
    /\ hashOf = [k \in NonDigitKeys |-> 0]
    /\ proc = 1
    /\ IterIdle /\ StructIdle /\ ValidIdle /\ StageIdle /\ ToolsIdle

SpecResolve == InitResolve /\ [][Resolve]_vars

\* The sets of required paths an episode may lack.
MissingSets == {m \in SUBSET RequiredPathSet : Cardinality(m) <= MaxMissing}

\* What the other episodes of a dataset may look like.
OtherEpisodes ==
    { ConformantEpisode,
      Without(ConformantEpisode, {"meta/video/fps"}),
      Without(ConformantEpisode, {"obs/proprio", "action/delta_eef"}) }

StructKeys == { <<"2">>, <<"1", "0">>, <<"a">>, <<"sup2">> }

\* Datasets in which one episode lacks any set of MissingSets and the others
\* are drawn from OtherEpisodes; the dataset without an episodes group; and
\* the dataset whose episodes group is empty.
StructDatasets ==
    {NoEpisodesDataset} \cup
    UNION { UNION { UNION { {[hasEpisodes |-> TRUE, keys |-> ks,
                              eps |-> [k \in Range(ks) |->
                                          IF k = ks[r] THEN Without(ConformantEpisode, m)
                                          ELSE others[k]]] :
                                others \in [Range(ks) -> OtherEpisodes]} :
                            m \in MissingSets} :
                    r \in 1..(IF ks = <<>> THEN 1 ELSE Len(ks))} :
            ks \in DistinctSeqsUpTo(StructKeys, MaxEpisodes)}

InitStruct ==
    /\ dataset \in StructDatasets
    /\ video_root = PathOf(<<"r">>)
    /\ hashOf \in HashChoices(dataset)
    /\ proc = 1
    /\ IterIdle /\ ResolveIdle /\ StructIdle /\ ValidIdle /\ StageIdle /\ ToolsIdle

SpecStruct == InitStruct /\ [][CallAssert]_vars

---------------------------------------------------------------------------
(* hdf5_adapter: validate_episode_arrays.                                  *)

\* b - a in IEEE arithmetic.
FloatSub(b, a) ==
    IF a.cls = "nan" \/ b.cls = "nan" THEN NaN
    ELSE IF a.cls = "fin" /\ b.cls = "fin" THEN Fin(b.v - a.v)
    ELSE IF b.cls = "fin" THEN (IF a.cls = "inf" THEN NegInf ELSE PosInf)
    ELSE IF a.cls = b.cls THEN NaN
    ELSE b

\* x >= 0 in IEEE arithmetic: false of NaN.
FloatGeqZero(x) == (x.cls = "fin" /\ x.v >= 0) \/ x.cls = "inf"

\* np.diff of a one-dimensional array: out[i] = a[i+1] - a[i].
NpDiffInt(a)   == [i \in 1..(IF Len(a) = 0 THEN 0 ELSE Len(a) - 1) |-> a[i + 1] - a[i]]
NpDiffFloat(a) == [i \in 1..(IF Len(a) = 0 THEN 0 ELSE Len(a) - 1) |-> FloatSub(a[i + 1], a[i])]

\* A variant with a strict comparison, which rejects plateaus.
FrameIndexMonotonicStrict(frame_index) ==
    \A i \in DOMAIN NpDiffInt(frame_index) : NpDiffInt(frame_index)[i] > 0

\* np.all(np.diff(frame_index) >= 0)
FrameIndexMonotonic(frame_index) ==
    \A i \in DOMAIN NpDiffInt(frame_index) : NpDiffInt(frame_index)[i] >= 0

\* np.all(np.diff(timestamps) >= 0)
TimestampsMonotonic(timestamps) ==
    \A i \in DOMAIN NpDiffFloat(timestamps) : FloatGeqZero(NpDiffFloat(timestamps)[i])

\* The chain without its timestamps link.
LengthsAgreeNoTimestamps(ep) ==
    /\ ep.proprio.len = ep.eef_pose.len
    /\ ep.eef_pose.len = Len(ep.frame_index)
    /\ Len(ep.frame_index) = ep.delta_eef.shape[1]

\* len(proprio) == len(eef_pose) == len(frame_index) == len(timestamps) == length
LengthsAgree(ep) ==
    /\ ep.proprio.len = ep.eef_pose.len
    /\ ep.eef_pose.len = Len(ep.frame_index)
    /\ Len(ep.frame_index) = Len(ep.timestamps)
    /\ Len(ep.timestamps) = ep.delta_eef.shape[1]

\* The arrays the validator reads, in the order it reads them.
ValidatorReadPaths ==
    { "action/delta_eef", "obs/proprio", "obs/eef_pose",
      "meta/frame_index", "meta/timestamps" }

Tag(cond, tag) == IF cond THEN <<tag>> ELSE <<>>

\* A variant that tests the shape of the action array first.
ValidateEpisodeArraysShapeFirst(ep) ==
    IF ~(ValidatorReadPaths \subseteq ep.present)
    THEN [err |-> "KeyError", issues |-> <<>>]
    ELSE IF ep.delta_eef.shape = <<>>
    THEN [err |-> "TypeError", issues |-> <<>>]
    ELSE [err |-> "none",
          issues |->
              Tag(Len(ep.delta_eef.shape) # 2 \/ ep.delta_eef.shape[2] # 6,
                  "delta_eef_shape_not_Tx6")
           \o Tag(~LengthsAgree(ep), "length_mismatch")
           \o Tag(~ep.delta_eef.finite, "delta_eef_non_finite")
           \o Tag(~ep.proprio.finite, "proprio_non_finite")
           \o Tag(~ep.eef_pose.finite, "eef_pose_non_finite")
           \o Tag(~FrameIndexMonotonic(ep.frame_index), "frame_index_not_monotonic")
           \o Tag(~TimestampsMonotonic(ep.timestamps), "timestamps_not_monotonic")]

\* validate_episode_arrays(episode): err is "none" and issues the returned
\* list, or err is the exception raised (KeyError on an absent array,
\* TypeError on len() of a zero-dimensional action array).
ValidateEpisodeArrays(ep) ==
    IF ~(ValidatorReadPaths \subseteq ep.present)
    THEN [err |-> "KeyError", issues |-> <<>>]
    ELSE IF ep.delta_eef.shape = <<>>
    THEN [err |-> "TypeError", issues |-> <<>>]
    ELSE [err |-> "none",
          issues |->
              Tag(~LengthsAgree(ep), "length_mismatch")
           \o Tag(~ep.delta_eef.finite, "delta_eef_non_finite")
           \o Tag(~ep.proprio.finite, "proprio_non_finite")
           \o Tag(~ep.eef_pose.finite, "eef_pose_non_finite")
           \o Tag(~FrameIndexMonotonic(ep.frame_index), "frame_index_not_monotonic")
           \o Tag(~TimestampsMonotonic(ep.timestamps), "timestamps_not_monotonic")
           \o Tag(Len(ep.delta_eef.shape) # 2 \/ ep.delta_eef.shape[2] # 6,
                  "delta_eef_shape_not_Tx6")]

\* validate_episode_arrays as a call.
Validate ==
    /\ validation = NotCalled
    /\ validation' = ValidateEpisodeArrays(episode_in)
    /\ UNCHANGED <<episode_in, notValidVars>>

\* The shapes of the action array: a scalar, one-dimensional, (T, 5),
\* (T, 6) and (T, 6, 1).
DeltaShapes ==
    {<<>>} \cup UNION { {<<t>>, <<t, 5>>, <<t, 6>>, <<t, 6, 1>>} : t \in 0..MaxLen }

RECURSIVE SeqProduct(_)
SeqProduct(shape) == IF shape = <<>> THEN 1 ELSE Head(shape) * SeqProduct(Tail(shape))

\* An array holds a non-finite element only if it holds an element.
Arrays(shapes) ==
    {[shape |-> sh, finite |-> f] : sh \in shapes, f \in BOOLEAN} \
    {[shape |-> sh, finite |-> FALSE] : sh \in {x \in shapes : SeqProduct(x) = 0}}

Columns == ({[len |-> n, finite |-> TRUE] : n \in 0..MaxLen}
            \cup {[len |-> n, finite |-> FALSE] : n \in 1..MaxLen})

Ramp(n) == [i \in 1..n |-> i - 1]
Descent(n) == [i \in 1..n |-> n - i]
FloatSeq(a) == [i \in 1..Len(a) |-> Fin(a[i])]

\* Per-step sequences of each length up to MaxLen: rising, and falling.
StepSeqs == {Ramp(n) : n \in 0..MaxLen} \cup {Descent(n) : n \in 2..MaxLen}

FrameValues == {0, 1, 2}
TimestampValues == {Fin(0), Fin(1), NaN, PosInf, NegInf}

\* Episodes whose array lengths, shapes and finiteness vary.
LengthCases ==
    {[ConformantEpisode EXCEPT !.delta_eef = d, !.proprio = p, !.eef_pose = e,
                               !.frame_index = f, !.timestamps = FloatSeq(t)] :
        d \in Arrays(DeltaShapes), p \in Columns, e \in Columns,
        f \in StepSeqs, t \in StepSeqs}

\* Episodes whose frame indices and timestamps vary; among the frame
\* indices, the sequences [0, 0, 1, 2, 2, 3] and [0, 2, 1].
ValueCases ==
    {[ConformantEpisode EXCEPT !.frame_index = f, !.timestamps = t] :
        f \in SeqsUpTo(FrameValues, MaxLen) \cup {<<0, 0, 1, 2, 2, 3>>, <<0, 2, 1>>},
        t \in SeqsUpTo(TimestampValues, MaxLen)}

\* Episodes that lack one of the arrays.
AbsentCases == {Without(ConformantEpisode, {path}) : path \in ValidatorReadPaths}

InitValidate ==
    /\ episode_in \in LengthCases \cup ValueCases \cup AbsentCases
    /\ validation = NotCalled
    /\ dataset = NoEpisodesDataset
    /\ video_root = PathOf(<<"r">>)
    /\ hashOf = [k \in NonDigitKeys |-> 0]
    /\ proc = 1
    /\ IterIdle /\ ResolveIdle /\ StructIdle /\ StageIdle /\ ToolsIdle

SpecValidate == InitValidate /\ [][Validate]_vars

---------------------------------------------------------------------------
(* The stages: 00a_validate_transfer.main and 02_export_mp4_from_hdf5.main.*)

\* The literals of the export stage.
FRONT_TOKEN == <<"o", "b", "s", "e", "r", "v", "a", "t", "i", "o", "n", ".", "i", "m", "a", "g", "e", "s", ".", "f", "r", "o", "n", "t">>
FRONT == <<"f", "r", "o", "n", "t">>
WRIST == <<"w", "r", "i", "s", "t">>
DEMO_PREFIX == <<"d", "e", "m", "o", "_">>
MP4_SUFFIX == <<".", "m", "p", "4">>

DigitChar(d) ==
    CASE d = 0 -> "0" [] d = 1 -> "1" [] d = 2 -> "2" [] d = 3 -> "3"
      [] d = 4 -> "4" [] d = 5 -> "5" [] d = 6 -> "6" [] d = 7 -> "7"
      [] d = 8 -> "8" [] d = 9 -> "9"

RECURSIVE DecimalDigits(_)
DecimalDigits(n) ==
    IF n < 10 THEN <<DigitChar(n)>>
    ELSE DecimalDigits(n \div 10) \o <<DigitChar(n % 10)>>

RECURSIVE ZeroPad(_, _)
ZeroPad(s, width) == IF Len(s) >= width THEN s ELSE ZeroPad(<<"0">> \o s, width)

\* f"{n:04d}": zero-padded to four characters, the sign counted, and longer
\* when the number needs more.
Format04d(n) ==
    IF n >= 0 THEN ZeroPad(DecimalDigits(n), 4)
    ELSE <<"-">> \o ZeroPad(DecimalDigits(-n), 3)

\* str.lower() on the characters the model's paths are written in.
LowerChar(c) == CASE c = "W" -> "w" [] c = "F" -> "f" [] OTHER -> c
Lower(s) == [i \in 1..Len(s) |-> LowerChar(s[i])]

\* Path(raw).stem: the final component without its last suffix.
PathStem(raw) ==
    LET parts == PathOf(raw).parts
        name  == IF parts = <<>> THEN <<>> ELSE parts[Len(parts)]
        dot   == FindLastFrom(name, <<".">>, Len(name))
    IN IF 1 < dot /\ dot < Len(name) THEN SubSeq(name, 1, dot - 1) ELSE name

\* infer_camera_key
infer_camera_key(raw) ==
    LET path_lower == Lower(raw)
        stem       == PathStem(raw)
    IN IF Contains(path_lower, FRONT_TOKEN) THEN FRONT
       ELSE IF Contains(path_lower, WRIST) THEN WRIST
       ELSE [i \in 1..Len(stem) |-> IF stem[i] = "." THEN "_" ELSE stem[i]]

\* f"demo_{demo_id:04d}_{camera_key}.mp4"
OutputName(demo_id, camera_key) ==
    DEMO_PREFIX \o Format04d(demo_id) \o <<"_">> \o camera_key \o MP4_SUFFIX

\* seq[:n] for an int n: the first n elements, or all but the last -n.
PySliceTo(seq, n) ==
    IF n >= 0 THEN SubSeq(seq, 1, IF n < Len(seq) THEN n ELSE Len(seq))
    ELSE SubSeq(seq, 1, Len(seq) + n)

\* main() up to the with statement: the argument checks (both stages).
StageStart ==
    /\ pc = "start"
    /\ args.stage \in {"validate", "export"}
    /\ IF ~fsys.hdf5
       THEN pc' = "exit" /\ exit' = "SystemExit: missing HDF5"
       ELSE IF ~fsys.root
       THEN pc' = "exit" /\ exit' = "SystemExit: missing video root"
       ELSE pc' = "open" /\ exit' = exit
    /\ UNCHANGED <<args, handle, episode_views, cursor, issue_records, manifest_rows,
                   checksums, counters, encoder_calls, fsys>>
    /\ UNCHANGED <<envVars, iterVars, resolveVars, structVars, validVars, toolVars>>

\* with h5py.File(..., "r") as h5_file:
StageOpen ==
    /\ pc = "open"
    /\ handle' = "open"
    /\ pc' = "assert"
    /\ UNCHANGED <<args, episode_views, cursor, issue_records, manifest_rows,
                   checksums, counters, encoder_calls, fsys, exit>>
    /\ UNCHANGED <<envVars, iterVars, resolveVars, structVars, validVars, toolVars>>

\* A variant that builds the views before it checks the structure.
StageAssertAfterListing ==
    /\ pc = "assert"
    /\ structure' = AssertRequiredStructure(dataset)
    /\ episode_views' = IF dataset.hasEpisodes /\ ~SortRaises(dataset.keys)
                           /\ dataset.keys # <<>>
                           /\ IterReadError(dataset.eps[FirstKey(dataset)]) = "none"
                        THEN <<BuildView(FirstKey(dataset),
                                         dataset.eps[FirstKey(dataset)], video_root)>>
                        ELSE <<>>
    /\ IF structure'.err # "none"
       THEN handle' = "closed" /\ exit' = structure'.err /\ pc' = "exit"
       ELSE handle' = handle /\ exit' = exit /\ pc' = "list"
    /\ UNCHANGED <<args, cursor, issue_records, manifest_rows,
                   checksums, counters, encoder_calls, fsys>>
    /\ UNCHANGED <<envVars, iterVars, resolveVars, validVars, toolVars>>

\* assert_required_structure(h5_file); an exception leaves the with block,
\* which closes the file, and ends main().
StageAssert ==
    /\ pc = "assert"
    /\ structure' = AssertRequiredStructure(dataset)
    /\ IF structure'.err # "none"
       THEN handle' = "closed" /\ exit' = structure'.err /\ pc' = "exit"
       ELSE handle' = handle /\ exit' = exit /\ pc' = "list"
    /\ UNCHANGED <<args, episode_views, cursor, issue_records, manifest_rows,
                   checksums, counters, encoder_calls, fsys>>
    /\ UNCHANGED <<envVars, iterVars, resolveVars, validVars, toolVars>>

\* list(iter_episode_views(h5_file, args.video_root)) starts the generator.
StageListStart == pc = "list" /\ iterPc = "idle" /\ IterStart

\* The list is built; 02 cuts it to --max-episodes.
StageListDone ==
    /\ pc = "list"
    /\ iterPc = "done"
    /\ episode_views' = IF args.stage = "export" /\ args.max_episodes.given
                        THEN PySliceTo(yielded, args.max_episodes.n)
                        ELSE yielded
    /\ cursor' = 1
    /\ pc' = "loop"
    /\ UNCHANGED <<args, handle, issue_records, manifest_rows,
                   checksums, counters, encoder_calls, fsys, exit>>
    /\ UNCHANGED <<envVars, iterVars, resolveVars, structVars, validVars, toolVars>>

\* A variant in which the error leaves main() without the file being closed.
StageListRaisedOpen ==
    /\ pc = "list"
    /\ iterPc = "error"
    /\ exit' = iterErr
    /\ pc' = "exit"
    /\ UNCHANGED <<args, handle, episode_views, cursor, issue_records, manifest_rows,
                   checksums, counters, encoder_calls, fsys>>
    /\ UNCHANGED <<envVars, iterVars, resolveVars, structVars, validVars, toolVars>>

\* The generator raised inside list(...).
StageListRaised ==
    /\ pc = "list"
    /\ iterPc = "error"
    /\ handle' = "closed"
    /\ exit' = iterErr
    /\ pc' = "exit"
    /\ UNCHANGED <<args, episode_views, cursor, issue_records, manifest_rows,
                   checksums, counters, encoder_calls, fsys>>
    /\ UNCHANGED <<envVars, iterVars, resolveVars, structVars, validVars, toolVars>>

\* A variant of the loop body that gives up at the first episode with an
\* issue instead of recording it and going on.
ValidateEpisodeStopAtFirstIssue ==
    /\ pc = "loop"
    /\ args.stage = "validate"
    /\ cursor <= Len(episode_views)
    /\ LET episode_view == episode_views[cursor]
           result       == ValidateEpisodeArrays(dataset.eps[episode_view.episode_key])
           video_exists == episode_view.video_path_resolved \in fsys.videos
           episode_issues ==
               result.issues \o (IF video_exists THEN <<>> ELSE <<"video_file_missing">>)
       IN IF result.err # "none"
          THEN /\ handle' = "closed" /\ exit' = result.err /\ pc' = "exit"
               /\ UNCHANGED <<cursor, issue_records, manifest_rows>>
          ELSE IF episode_issues # <<>>
          THEN /\ handle' = "closed" /\ exit' = "SystemExit(1)" /\ pc' = "exit"
               /\ issue_records' =
                     Append(issue_records,
                            [demo_id     |-> episode_view.demo_id,
                             episode_key |-> episode_view.episode_key,
                             issues      |-> episode_issues])
               /\ UNCHANGED <<cursor, manifest_rows>>
          ELSE /\ manifest_rows' =
                     Append(manifest_rows,
                            [episode_view EXCEPT !.video_path_resolved = video_exists])
               /\ cursor' = cursor + 1
               /\ UNCHANGED <<handle, exit, pc, issue_records>>
    /\ UNCHANGED <<args, episode_views, checksums, counters, encoder_calls, fsys>>
    /\ UNCHANGED <<envVars, iterVars, resolveVars, structVars, validVars, toolVars>>

\* 00a: one turn of `for episode_view in episode_views`.
ValidateEpisode ==
    /\ pc = "loop"
    /\ args.stage = "validate"
    /\ cursor <= Len(episode_views)
    /\ LET episode_view == episode_views[cursor]
           episode      == dataset.eps[episode_view.episode_key]
           result       == ValidateEpisodeArrays(episode)
           video_exists == episode_view.video_path_resolved \in fsys.videos
           episode_issues ==
               result.issues \o (IF video_exists THEN <<>> ELSE <<"video_file_missing">>)
       IN IF result.err # "none"
          THEN /\ handle' = "closed" /\ exit' = result.err /\ pc' = "exit"
               /\ UNCHANGED <<cursor, issue_records, manifest_rows>>
          ELSE /\ issue_records' =
                     IF episode_issues # <<>>
                     THEN Append(issue_records,
                                 [demo_id     |-> episode_view.demo_id,
                                  episode_key |-> episode_view.episode_key,
                                  issues      |-> episode_issues])
                     ELSE issue_records
               /\ manifest_rows' =
                     Append(manifest_rows,
                            [demo_id             |-> episode_view.demo_id,
                             episode_key         |-> episode_view.episode_key,
                             num_steps           |-> episode_view.num_steps,
                             task_text           |-> episode_view.task_text,
                             video_path_hdf5     |-> episode_view.video_path_hdf5,
                             video_path_resolved |-> episode_view.video_path_resolved,
                             video_exists        |-> video_exists,
                             from_timestamp      |-> episode_view.from_timestamp,
                             to_timestamp        |-> episode_view.to_timestamp,
                             fps                 |-> episode_view.fps,
                             expected_export_name |->
                                 OutputName(episode_view.demo_id, FRONT)])
               /\ cursor' = cursor + 1
               /\ UNCHANGED <<handle, exit, pc>>
    /\ UNCHANGED <<args, episode_views, checksums, counters, encoder_calls, fsys>>
    /\ UNCHANGED <<envVars, iterVars, resolveVars, structVars, validVars, toolVars>>

\* A variant that lets a duration of zero through to ffmpeg.
InvalidDurationNegativeOnly(view) == view.to_timestamp - view.from_timestamp < 0

\* clip_video_ffmpeg raises before it runs ffmpeg when the duration,
\* max(0.0, end_sec - start_sec), is not positive.
InvalidDuration(view) ==
    (IF view.to_timestamp - view.from_timestamp > 0
     THEN view.to_timestamp - view.from_timestamp ELSE 0) <= 0

\* What running ffmpeg may do: succeed, exit non-zero (CalledProcessError),
\* or not be there to run (FileNotFoundError, which the first run shows).
EncoderOutcomes ==
    {"ok", "CalledProcessError"}
    \cup (IF encoder_calls = <<>> THEN {"FileNotFoundError"} ELSE {})

ExportRow(view, output_name, camera_key, status) ==
    [ demo_id           |-> view.demo_id,
      episode_key       |-> view.episode_key,
      task_text         |-> view.task_text,
      source_video_path |-> view.video_path_resolved,
      output_video_name |-> output_name,
      camera_key        |-> camera_key,
      fps               |-> view.fps,
      from_timestamp    |-> view.from_timestamp,
      to_timestamp      |-> view.to_timestamp,
      num_steps         |-> view.num_steps,
      status            |-> status ]

\* The end of one turn of 02's loop: the row, and the checksum when the
\* output is there and the run is not a dry run.
RecordExport(view, output_name, camera_key, status, outputs) ==
    /\ manifest_rows' = Append(manifest_rows, ExportRow(view, output_name, camera_key, status))
    /\ checksums' = IF status \in {"exported", "skipped_existing"}
                       /\ output_name \in outputs /\ ~args.dry_run
                    THEN Append(checksums, output_name)
                    ELSE checksums
    /\ fsys' = [fsys EXCEPT !.outputs = outputs]
    /\ cursor' = cursor + 1
    /\ UNCHANGED <<handle, exit, pc>>

\* source_videos.add(...), which every turn starts with, and the turn's counter.
Seen(view) == [counters EXCEPT !.source_videos = @ \cup {view.video_path_resolved}]
Count(view, field) == [Seen(view) EXCEPT ![field] = @ + 1]

\* 02: one turn of `for view in episodes`.
ExportEpisode ==
    /\ pc = "loop"
    /\ args.stage = "export"
    /\ cursor <= Len(episode_views)
    /\ LET view        == episode_views[cursor]
           camera_key  == infer_camera_key(view.video_path_hdf5)
           output_name == OutputName(view.demo_id, camera_key)
       IN IF view.video_path_resolved \notin fsys.videos
          THEN /\ counters' = Count(view, "missing_sources")
               /\ RecordExport(view, output_name, camera_key, "missing_source", fsys.outputs)
               /\ UNCHANGED encoder_calls
          ELSE IF output_name \in fsys.outputs /\ ~args.overwrite
          THEN /\ counters' = Count(view, "skipped_existing")
               /\ RecordExport(view, output_name, camera_key, "skipped_existing", fsys.outputs)
               /\ UNCHANGED encoder_calls
          ELSE IF args.dry_run
          THEN /\ counters' = Count(view, "exported_count")
               /\ RecordExport(view, output_name, camera_key, "exported", fsys.outputs)
               /\ UNCHANGED encoder_calls
          ELSE IF InvalidDuration(view)
          THEN /\ counters' = Count(view, "failed_exports")
               /\ RecordExport(view, output_name, camera_key, "failed", fsys.outputs)
               /\ UNCHANGED encoder_calls
          ELSE \E outcome \in EncoderOutcomes :
                 /\ encoder_calls' = Append(encoder_calls, view.episode_key)
                 /\ CASE outcome = "ok" ->
                           /\ counters' = Count(view, "exported_count")
                           /\ RecordExport(view, output_name, camera_key, "exported",
                                           fsys.outputs \cup {output_name})
                      [] outcome = "CalledProcessError" ->
                           /\ counters' = Count(view, "failed_exports")
                           /\ RecordExport(view, output_name, camera_key, "failed",
                                           fsys.outputs)
                      [] OTHER ->
                           /\ handle' = "closed" /\ exit' = outcome /\ pc' = "exit"
                           /\ counters' = Seen(view)
                           /\ UNCHANGED <<manifest_rows, checksums, fsys, cursor>>
    /\ UNCHANGED <<args, episode_views, issue_records>>
    /\ UNCHANGED <<envVars, iterVars, resolveVars, structVars, validVars, toolVars>>

\* The loop is over and the with block ends: the file is closed.
StageLoopEnd ==
    /\ pc = "loop"
    /\ cursor > Len(episode_views)
    /\ handle' = "closed"
    /\ pc' = "write_manifest"
    /\ UNCHANGED <<args, episode_views, cursor, issue_records, manifest_rows,
                   checksums, counters, encoder_calls, fsys, exit>>
    /\ UNCHANGED <<envVars, iterVars, resolveVars, structVars, validVars, toolVars>>

\* args.manifest_out.write_text(...); 02 then writes the checksums, if any.
WriteManifest ==
    /\ pc = "write_manifest"
    /\ fsys' = [fsys EXCEPT
                  !.manifest = "written",
                  !.checksums = IF args.stage = "export" /\ checksums # <<>>
                                THEN "written" ELSE @]
    /\ pc' = "write_report"
    /\ UNCHANGED <<args, handle, episode_views, cursor, issue_records, manifest_rows,
                   checksums, counters, encoder_calls, exit>>
    /\ UNCHANGED <<envVars, iterVars, resolveVars, structVars, validVars, toolVars>>

\* args.report_out.write_text(...)
WriteReport ==
    /\ pc = "write_report"
    /\ fsys' = [fsys EXCEPT !.report = "written"]
    /\ pc' = "finish"
    /\ UNCHANGED <<args, handle, episode_views, cursor, issue_records, manifest_rows,
                   checksums, counters, encoder_calls, exit>>
    /\ UNCHANGED <<envVars, iterVars, resolveVars, structVars, validVars, toolVars>>

\* The prints and the exit status.
StageFinish ==
    /\ pc = "finish"
    /\ exit' = IF args.stage = "validate"
               THEN (IF issue_records # <<>> THEN "SystemExit(1)" ELSE "0")
               ELSE (IF counters.missing_sources > 0 \/ counters.failed_exports > 0
                     THEN "SystemExit(1)" ELSE "0")
    /\ pc' = "exit"
    /\ UNCHANGED <<args, handle, episode_views, cursor, issue_records, manifest_rows,
                   checksums, counters, encoder_calls, fsys>>
    /\ UNCHANGED <<envVars, iterVars, resolveVars, structVars, validVars, toolVars>>

\* The episodes the stages are run over: a conformant one, one without
\* meta/video/fps, one without obs/proprio, and one with a NaN in its pose
\* array and a clip of zero duration.
StageEpisodes ==
    { ConformantEpisode,
      Without(ConformantEpisode, {"meta/video/fps"}),
      Without(ConformantEpisode, {"obs/proprio"}),
      [ConformantEpisode EXCEPT !.eef_pose = [len |-> 2, finite |-> FALSE],
                                !.to_timestamp = 0] }

\* Keys of the stage's datasets: numerals of one, two and five digits, a key
\* without digits, and a digit string int() rejects.
StageKeys ==
    { <<"0">>, <<"1">>, <<"1", "0">>, <<"1", "2", "3", "4", "5">>, <<"a">>, <<"sup2">> }

StageArgs ==
    {[stage |-> "validate", overwrite |-> FALSE, dry_run |-> FALSE, max_episodes |-> NoCap]}
    \cup {[stage |-> "export", overwrite |-> o, dry_run |-> d, max_episodes |-> m] :
             o \in BOOLEAN, d \in BOOLEAN, m \in {NoCap, [given |-> TRUE, n |-> 1]}}

\* The video files a dataset's episodes point at, and the outputs 02 names.
SourceVideos(ds, root) ==
    {ResolveVideoPath(root, ds.eps[k].video_path) : k \in Range(ds.keys)}

OutputNames(ds) ==
    IF SortRaises(ds.keys) THEN {}
    ELSE {OutputName(DemoId(k), infer_camera_key(ds.eps[k].video_path)) : k \in Range(ds.keys)}

\* A stage starts on a dataset with none or all of its source videos in
\* place and, for 02, none or all of its outputs left by an earlier run; or
\* without its HDF5 file; or without its video root.
Init ==
    /\ args \in StageArgs
    /\ video_root = PathOf(<<"r">>)
    /\ proc = 1
    /\ \/ /\ dataset \in DatasetsOver(DistinctSeqsUpTo(StageKeys, MaxEpisodes), StageEpisodes)
          /\ hashOf \in HashChoices(dataset)
          /\ \E videos \in {{}, SourceVideos(dataset, video_root)},
                outputs \in {{}} \cup (IF args.stage = "export"
                                       THEN {OutputNames(dataset)} ELSE {}) :
                fsys = [NoFiles EXCEPT !.videos = videos, !.outputs = outputs]
       \/ /\ dataset = NoEpisodesDataset
          /\ hashOf = [k \in NonDigitKeys |-> 0]
          /\ fsys \in {[NoFiles EXCEPT !.hdf5 = FALSE], [NoFiles EXCEPT !.root = FALSE]}
    /\ pc = "start" /\ handle = "unopened" /\ episode_views = <<>> /\ cursor = 1
    /\ issue_records = <<>> /\ manifest_rows = <<>> /\ checksums = <<>>
    /\ counters = NoCounters /\ encoder_calls = <<>>
    /\ exit = "running"
    /\ IterIdle /\ ResolveIdle /\ StructIdle /\ ValidIdle /\ ToolsIdle

Next ==
    \/ StageStart \/ StageOpen \/ StageAssert
    \/ StageListStart \/ IterNext \/ IterStop \/ StageListDone \/ StageListRaised
    \/ ValidateEpisode \/ ExportEpisode \/ StageLoopEnd
    \/ WriteManifest \/ WriteReport \/ StageFinish

\* One run of the validation stage or of the export stage.
Spec == Init /\ [][Next]_vars

---------------------------------------------------------------------------
(* The promotion stage: 01_lerobot_to_hdf5.main.                           *)

\* What a file may hold.
FileContents == {"A", "B"}

\* sha256_file: the digest of a file's content; distinct contents have
\* distinct digests.
sha256_file(content) == <<"sha256", content>>

Metadata(source, canonical) ==
    [ written          |-> TRUE,
      source_sha256    |-> sha256_file(source),
      canonical_sha256 |-> sha256_file(canonical),
      content_match    |-> sha256_file(source) = sha256_file(canonical) ]

\* main() up to the comparison: the incoming file must be there; its digest
\* is taken.
PromoteStart ==
    /\ promotePc = "start"
    /\ before' = [canonical |-> canonical_hdf5, meta |-> meta_out]
    /\ IF incoming_hdf5 = "absent"
       THEN /\ promoteExit' = "SystemExit: missing incoming HDF5"
            /\ promotePc' = "exit"
            /\ UNCHANGED source_hash
       ELSE /\ source_hash' = sha256_file(incoming_hdf5)
            /\ promotePc' = "compare"
            /\ UNCHANGED promoteExit
    /\ UNCHANGED <<incoming_hdf5, canonical_hdf5, meta_out, force, copies, promote_runs>>
    /\ UNCHANGED <<envVars, iterVars, resolveVars, structVars, validVars, stageVars,
                   sampleVars, bundleVars>>

\* A variant that copies over a differing canonical file without --force.
PromoteCompareAlwaysOverwrite ==
    /\ promotePc = "compare"
    /\ IF canonical_hdf5 # "absent" /\ sha256_file(canonical_hdf5) = source_hash
       THEN UNCHANGED <<canonical_hdf5, copies>>
       ELSE canonical_hdf5' = incoming_hdf5 /\ copies' = copies + 1
    /\ promotePc' = "meta"
    /\ UNCHANGED <<incoming_hdf5, meta_out, force, promoteExit, source_hash, before,
                   promote_runs>>
    /\ UNCHANGED <<envVars, iterVars, resolveVars, structVars, validVars, stageVars,
                   sampleVars, bundleVars>>

\* The canonical file is left as it is when it has the incoming digest,
\* copied over when it differs and --force is given or when it is absent;
\* when it differs and --force is absent the stage exits.
PromoteCompare ==
    /\ promotePc = "compare"
    /\ IF canonical_hdf5 # "absent"
       THEN IF sha256_file(canonical_hdf5) = source_hash
            THEN /\ promotePc' = "meta"
                 /\ UNCHANGED <<canonical_hdf5, copies, promoteExit>>
            ELSE IF ~force
            THEN /\ promoteExit' = "SystemExit: target exists and differs"
                 /\ promotePc' = "exit"
                 /\ UNCHANGED <<canonical_hdf5, copies>>
            ELSE /\ canonical_hdf5' = incoming_hdf5
                 /\ copies' = copies + 1
                 /\ promotePc' = "meta"
                 /\ UNCHANGED promoteExit
       ELSE /\ canonical_hdf5' = incoming_hdf5
            /\ copies' = copies + 1
            /\ promotePc' = "meta"
            /\ UNCHANGED promoteExit
    /\ UNCHANGED <<incoming_hdf5, meta_out, force, source_hash, before, promote_runs>>
    /\ UNCHANGED <<envVars, iterVars, resolveVars, structVars, validVars, stageVars,
                   sampleVars, bundleVars>>

\* The digest of the canonical file is taken and the metadata written.
PromoteWriteMeta ==
    /\ promotePc = "meta"
    /\ meta_out' = [ written          |-> TRUE,
                     source_sha256    |-> source_hash,
                     canonical_sha256 |-> sha256_file(canonical_hdf5),
                     content_match    |-> source_hash = sha256_file(canonical_hdf5) ]
    /\ promoteExit' = "0"
    /\ promotePc' = "exit"
    /\ UNCHANGED <<incoming_hdf5, canonical_hdf5, force, source_hash, copies, before,
                   promote_runs>>
    /\ UNCHANGED <<envVars, iterVars, resolveVars, structVars, validVars, stageVars,
                   sampleVars, bundleVars>>

\* The stage is run again on the same files, with or without --force.
PromoteAgain ==
    /\ promotePc = "exit"
    /\ Len(promote_runs) < MaxReruns
    /\ promote_runs' = Append(promote_runs,
                              [exit |-> promoteExit, copies |-> copies,
                               canonical |-> canonical_hdf5])
    /\ force' \in BOOLEAN
    /\ promotePc' = "start"
    /\ promoteExit' = "running"
    /\ copies' = 0
    /\ source_hash' = <<>>
    /\ UNCHANGED <<incoming_hdf5, canonical_hdf5, meta_out, before>>
    /\ UNCHANGED <<envVars, iterVars, resolveVars, structVars, validVars, stageVars,
                   sampleVars, bundleVars>>

\* The stage starts with or without an incoming file, with or without a
\* canonical file of either content, and with or without the metadata of
\* an earlier promotion.
InitPromote ==
    /\ incoming_hdf5 \in FileContents \cup {"absent"}
    /\ canonical_hdf5 \in FileContents \cup {"absent"}
    /\ meta_out \in {NoMeta} \cup {Metadata(c, c) : c \in FileContents}
    /\ force \in BOOLEAN
    /\ promotePc = "start" /\ promoteExit = "running"
    /\ source_hash = <<>> /\ copies = 0
    /\ before = [canonical |-> canonical_hdf5, meta |-> meta_out]
    /\ promote_runs = <<>>
    /\ dataset = NoEpisodesDataset
    /\ video_root = PathOf(<<"r">>)
    /\ hashOf = [k \in NonDigitKeys |-> 0]
    /\ proc = 1
    /\ IterIdle /\ ResolveIdle /\ StructIdle /\ ValidIdle /\ StageIdle /\ SampleIdle
    /\ BundleIdle

NextPromote == PromoteStart \/ PromoteCompare \/ PromoteWriteMeta \/ PromoteAgain

SpecPromote == InitPromote /\ [][NextPromote]_vars

---------------------------------------------------------------------------
(* 06_run_reason_labels: _sample_augmented_jobs.                           *)

UNKNOWN == "<unknown>"

\* The task texts of the model in the order sorted() puts them.
TaskOrder == <<UNKNOWN, "pick", "place">>

\* task_by_demo_id.get(demo_id, "<unknown>")
TaskOf(job) ==
    IF job.demo_id \in DOMAIN task_by_demo_id THEN task_by_demo_id[job.demo_id]
    ELSE UNKNOWN

\* The positions in jobs of one task text: grouped[task_text].
Group(task_text) == {i \in 1..Len(jobs) : TaskOf(jobs[i]) = task_text}

\* math.ceil(n * ratio) and the integer part of n * ratio, for n >= 0.
CeilTimes(n, r) == -((-(n * r.num)) \div r.den)
FloorTimes(n, r) == (n * r.num) \div r.den

Max(a, b) == IF a >= b THEN a ELSE b
Min(a, b) == IF a <= b THEN a ELSE b

\* A variant that rounds the share of a group down.
GroupQuotaRoundedDown(n) == Min(FloorTimes(n, ratio), n)

\* k = min(max(1, math.ceil(len(group) * ratio)), len(group))
GroupQuota(n) == Min(Max(1, CeilTimes(n, ratio)), n)

\* rng.sample(population, k): any k of them, no position twice.
Samples(population, k) == {S \in SUBSET population : Cardinality(S) = k}

\* (int(row["demo_id"]), int(row["variant_idx"])) < the same of another row.
JobBefore(a, b) ==
    a.demo_id < b.demo_id \/ (a.demo_id = b.demo_id /\ a.variant_idx < b.variant_idx)

\* sampled.sort(key=...) on rows that differ in their keys.
RECURSIVE SortJobs(_)
SortJobs(positions) ==
    IF positions = {} THEN <<>>
    ELSE LET first == CHOOSE i \in positions :
                         \A j \in positions \ {i} : JobBefore(jobs[i], jobs[j])
         IN <<jobs[first]>> \o SortJobs(positions \ {first})

\* The early return, or the grouping by task text.
SampleStart ==
    /\ samplePc = "start"
    /\ IF ratio.num <= 0 \/ jobs = <<>>
       THEN /\ sample_out' = [err |-> "none", rows |-> <<>>]
            /\ samplePc' = "done"
            /\ UNCHANGED grouped
       ELSE /\ grouped' = SelectSeq(TaskOrder, LAMBDA t : Group(t) # {})
            /\ samplePc' = "groups"
            /\ UNCHANGED sample_out
    /\ UNCHANGED <<jobs, task_by_demo_id, ratio, max_items, sampled>>
    /\ UNCHANGED <<envVars, iterVars, resolveVars, structVars, validVars, stageVars,
                   promoteVars, bundleVars>>

\* One turn of `for task_text in sorted(grouped.keys())`.
SampleGroup ==
    /\ samplePc = "groups"
    /\ grouped # <<>>
    /\ \E S \in Samples(Group(Head(grouped)), GroupQuota(Cardinality(Group(Head(grouped))))) :
          sampled' = sampled \cup S
    /\ grouped' = Tail(grouped)
    /\ UNCHANGED <<jobs, task_by_demo_id, ratio, max_items, samplePc, sample_out>>
    /\ UNCHANGED <<envVars, iterVars, resolveVars, structVars, validVars, stageVars,
                   promoteVars, bundleVars>>

\* The global cap: a sample of the sample when it is longer than max_items;
\* rng.sample raises ValueError for a negative size.
SampleCap ==
    /\ samplePc = "groups"
    /\ grouped = <<>>
    /\ IF max_items.given /\ Cardinality(sampled) > max_items.n
       THEN IF max_items.n < 0
            THEN /\ sample_out' = [err |-> "ValueError", rows |-> <<>>]
                 /\ samplePc' = "done"
                 /\ UNCHANGED sampled
            ELSE /\ \E S \in Samples(sampled, max_items.n) : sampled' = S
                 /\ samplePc' = "sort"
                 /\ UNCHANGED sample_out
       ELSE /\ samplePc' = "sort"
            /\ UNCHANGED <<sampled, sample_out>>
    /\ UNCHANGED <<jobs, task_by_demo_id, ratio, max_items, grouped>>
    /\ UNCHANGED <<envVars, iterVars, resolveVars, structVars, validVars, stageVars,
                   promoteVars, bundleVars>>

\* The sort by (demo_id, variant_idx) and the return.
SampleSort ==
    /\ samplePc = "sort"
    /\ sample_out' = [err |-> "none", rows |-> SortJobs(sampled)]
    /\ samplePc' = "done"
    /\ UNCHANGED <<jobs, task_by_demo_id, ratio, max_items, grouped, sampled>>
    /\ UNCHANGED <<envVars, iterVars, resolveVars, structVars, validVars, stageVars,
                   promoteVars, bundleVars>>

\* A set of rows as a list in the order of their keys, and a list reversed.
RECURSIVE SortJobsOf(_)
SortJobsOf(rows) ==
    IF rows = {} THEN <<>>
    ELSE LET first == CHOOSE a \in rows : \A b \in rows \ {a} : JobBefore(a, b)
         IN <<first>> \o SortJobsOf(rows \ {first})

Reverse(seq) == [i \in 1..Len(seq) |-> seq[Len(seq) + 1 - i]]

\* The rows a manifest may hold: two variants each of three demos.
JobRows == {[demo_id |-> d, variant_idx |-> v] : d \in 1..3, v \in 0..1}

\* Manifests of up to MaxJobs rows, no row twice, in either order of
\* their keys.
JobLists ==
    {SortJobsOf(S) : S \in {T \in SUBSET JobRows : Cardinality(T) <= MaxJobs}}
    \cup {Reverse(SortJobsOf(S)) : S \in {T \in SUBSET JobRows : Cardinality(T) <= MaxJobs}}

\* Demo 1 has a task text, demo 2 the same or another, demo 3 none.
TaskMaps ==
    { (1 :> "pick") @@ (2 :> "pick"), (1 :> "pick") @@ (2 :> "place") }

Ratios ==
    { [num |-> -1, den |-> 2], [num |-> 0, den |-> 1], [num |-> 1, den |-> 4],
      [num |-> 1, den |-> 2], [num |-> 1, den |-> 1], [num |-> 2, den |-> 1] }

Caps == {NoCap} \cup {[given |-> TRUE, n |-> n] : n \in -1..2}

InitSample ==
    /\ jobs \in JobLists
    /\ task_by_demo_id \in TaskMaps
    /\ ratio \in Ratios
    /\ max_items \in Caps
    /\ samplePc = "start" /\ grouped = <<>> /\ sampled = {}
    /\ sample_out = NotCalled
    /\ dataset = NoEpisodesDataset
    /\ video_root = PathOf(<<"r">>)
    /\ hashOf = [k \in NonDigitKeys |-> 0]
    /\ proc = 1
    /\ IterIdle /\ ResolveIdle /\ StructIdle /\ ValidIdle /\ StageIdle /\ PromoteIdle
    /\ BundleIdle

NextSample == SampleStart \/ SampleGroup \/ SampleCap \/ SampleSort

SpecSample == InitSample /\ [][NextSample]_vars

---------------------------------------------------------------------------
(* The job bundle builder: 03_run_transfer.main.                           *)

\* "nl" stands for the newline character, which a file name may hold.
NEWLINE == "nl"

Alphabet == <<"a", "b", "c", "d", "e", "f", "g", "h", "i", "j", "k", "l", "m",
              "n", "o", "p", "q", "r", "s", "t", "u", "v", "w", "x", "y", "z">>

\* ord(c), for the characters file names are written in here.
CharCode(c) ==
    CASE c = NEWLINE -> 10
      [] c = "." -> 46
      [] c \in DecimalChars -> 48 + DigitValue(c)
      [] c = "_" -> 95
      [] OTHER -> 96 + (CHOOSE i \in 1..Len(Alphabet) : Alphabet[i] = c)

\* a < b for two strings: by code point, a proper prefix first. Paths of
\* one directory compare as their names do.
RECURSIVE StrLess(_, _)
StrLess(a, b) ==
    IF b = <<>> THEN FALSE
    ELSE IF a = <<>> THEN TRUE
    ELSE IF Head(a) # Head(b) THEN CharCode(Head(a)) < CharCode(Head(b))
    ELSE StrLess(Tail(a), Tail(b))

RECURSIVE InsertByName(_, _)
InsertByName(n, s) ==
    IF s = <<>> THEN <<n>>
    ELSE IF StrLess(n, Head(s)) THEN <<n>> \o s
    ELSE <<Head(s)>> \o InsertByName(n, Tail(s))

\* A variant that keeps the order the directory lists its entries in.
SortedPathsUnsorted(names) == names

\* sorted(paths)
RECURSIVE SortedPaths(_)
SortedPaths(names) ==
    IF names = <<>> THEN <<>>
    ELSE InsertByName(names[Len(names)], SortedPaths(SubSeq(names, 1, Len(names) - 1)))

\* fnmatch of a name against a pattern whose only wildcard is "*".
RECURSIVE FnMatch(_, _)
FnMatch(pattern, name) ==
    IF pattern = <<>> THEN name = <<>>
    ELSE IF Head(pattern) = "*"
         THEN FnMatch(Tail(pattern), name)
                 \/ (name # <<>> /\ FnMatch(pattern, Tail(name)))
         ELSE name # <<>> /\ Head(name) = Head(pattern)
                 /\ FnMatch(Tail(pattern), Tail(name))

\* args.input_videos_dir.glob(args.video_glob), in the directory's order.
Glob(entries, pattern) == SelectSeq(entries, LAMBDA n : FnMatch(pattern, n))

\* The length of the run of decimal digits of s that starts at position i.
RECURSIVE DigitRun(_, _)
DigitRun(s, i) ==
    IF i <= Len(s) /\ s[i] \in DecimalChars THEN 1 + DigitRun(s, i + 1) ELSE 0

NoMatch == [matched |-> FALSE, demo_id |-> 0, camera_key |-> <<>>]

\* parse_demo_filename: DEMO_NAME_PATTERN.match(name), the pattern being
\* ^demo_(\d+)_(.+)\.mp4$ . "$" matches at the end of the name and also
\* before a newline that ends it; "." matches any character but a newline.
parse_demo_filename(name) ==
    LET body   == IF name # <<>> /\ name[Len(name)] = NEWLINE
                  THEN SubSeq(name, 1, Len(name) - 1) ELSE name
        digits == DigitRun(body, 6)
        camera == SubSeq(body, 7 + digits, Len(body) - 4)
    IN IF /\ Len(body) >= 5 + digits + 1 + 1 + 4
          /\ SubSeq(body, 1, 5) = DEMO_PREFIX
          /\ digits >= 1
          /\ body[6 + digits] = "_"
          /\ SubSeq(body, Len(body) - 3, Len(body)) = MP4_SUFFIX
          /\ camera # <<>>
          /\ NEWLINE \notin Range(camera)
       THEN [matched |-> TRUE, demo_id |-> IntOf(SubSeq(body, 6, 5 + digits)),
             camera_key |-> camera]
       ELSE NoMatch

\* f"job_{job_id:06d}"
JobIdText(n) == <<"j", "o", "b", "_">> \o ZeroPad(DecimalDigits(n), 6)

\* f"demo_{demo_id:04d}_v{variant_idx:02d}_{camera_key}.mp4"
VariantOutputName(demo_id, variant, camera_key) ==
    DEMO_PREFIX \o Format04d(demo_id) \o <<"_", "v">>
        \o ZeroPad(DecimalDigits(variant), 2) \o <<"_">> \o camera_key \o MP4_SUFFIX

\* [value.strip() for value in args.prompt_profiles.split(",") if value.strip()],
\* on a profile list already split at its commas, " " being a blank value.
StripProfiles(values) == SelectSeq(values, LAMBDA v : v # " ")

\* The entry of a videos directory that is itself a directory.
Directories == {DEMO_PREFIX \o <<"3", "_", "d", ".", "m", "p", "4">>}

BundleEnds(outcome) ==
    /\ bundlePc' = "exit"
    /\ bundleExit' = outcome

notBundleVars == <<envVars, iterVars, resolveVars, structVars, validVars, stageVars,
                   promoteVars, sampleVars>>

\* 03:62-78: the checks of the command line, the sorted glob and the
\* directories of the run.
BundleStart ==
    /\ bundlePc = "start"
    /\ IF bundle_args.variants_per_demo < 1
       THEN /\ BundleEnds("SystemExit(--variants-per-demo must be >= 1)")
            /\ UNCHANGED input_videos
       ELSE LET found == SortedPaths(Glob(listing, bundle_args.video_glob))
            IN /\ input_videos' = found
               /\ IF found = <<>>
                  THEN BundleEnds("SystemExit(No videos found)")
                  ELSE IF StripProfiles(bundle_args.prompt_profiles) = <<>>
                  THEN BundleEnds("SystemExit(--prompt-profiles must contain at least one value)")
                  ELSE /\ bundlePc' = "videos"
                       /\ UNCHANGED bundleExit
    /\ UNCHANGED <<bundle_args, listing, video_idx, variant_idx, job_id, job_lines,
                   expected_lines, checksum_lines, unique_demo_ids, bundle_files>>
    /\ UNCHANGED notBundleVars

\* 03:91-98: one turn of `for video_path in input_videos` up to its inner
\* loop. sha256_file opens the entry, which raises when it is a directory.
BundleVideo ==
    /\ bundlePc = "videos"
    /\ video_idx <= Len(input_videos)
    /\ LET video_path == input_videos[video_idx]
           parsed     == parse_demo_filename(video_path)
       IN IF ~parsed.matched
          THEN /\ video_idx' = video_idx + 1
               /\ UNCHANGED <<bundlePc, bundleExit, unique_demo_ids, checksum_lines,
                              variant_idx>>
          ELSE /\ unique_demo_ids' = unique_demo_ids \cup {parsed.demo_id}
               /\ IF video_path \in Directories
                  THEN /\ BundleEnds("IsADirectoryError")
                       /\ UNCHANGED <<checksum_lines, variant_idx, video_idx>>
                  ELSE /\ checksum_lines' = Append(checksum_lines, video_path)
                       /\ variant_idx' = 0
                       /\ bundlePc' = "variants"
                       /\ UNCHANGED <<bundleExit, video_idx>>
    /\ UNCHANGED <<bundle_args, listing, input_videos, job_id, job_lines,
                   expected_lines, bundle_files>>
    /\ UNCHANGED notBundleVars

\* 03:102
Seed(demo_id, variant) == bundle_args.base_seed + demo_id * 1000 + variant

\* 03:146, a variant that counts a job per video.
NextJobIdPerVideo(variant) == IF variant = 0 THEN job_id + 1 ELSE job_id

\* 03:146: job_id += 1
NextJobId(variant) == job_id + 1

\* 03:100-146: one turn of `for variant_idx in range(args.variants_per_demo)`;
\* the last one ends the turn of the outer loop.
BundleVariant ==
    /\ bundlePc = "variants"
    /\ LET video_path  == input_videos[video_idx]
           parsed      == parse_demo_filename(video_path)
           profiles    == StripProfiles(bundle_args.prompt_profiles)
           profile     == profiles[(variant_idx % Len(profiles)) + 1]
           seed        == Seed(parsed.demo_id, variant_idx)
           output_name == VariantOutputName(parsed.demo_id, variant_idx, parsed.camera_key)
           request_path == JobIdText(job_id) \o <<".", "j", "s", "o", "n">>
           request_payload ==
               [ job_id |-> JobIdText(job_id), demo_id |-> parsed.demo_id,
                 variant_idx |-> variant_idx, prompt_profile |-> profile,
                 seed |-> seed, local_input_video |-> video_path ]
           job_record ==
               [ job_id |-> JobIdText(job_id), demo_id |-> parsed.demo_id,
                 variant_idx |-> variant_idx, camera_key |-> parsed.camera_key,
                 seed |-> seed, prompt_profile |-> profile,
                 input_video |-> video_path, request_json |-> request_path ]
           expected_record ==
               [ job_id |-> JobIdText(job_id), demo_id |-> parsed.demo_id,
                 variant_idx |-> variant_idx,
                 expected_output_filename |-> output_name ]
       IN /\ bundle_files' =
                [bundle_files EXCEPT !.requests =
                    {f \in @ : f.name # request_path}
                        \cup {[name |-> request_path, payload |-> request_payload]}]
          /\ job_lines' = Append(job_lines, job_record)
          /\ expected_lines' = Append(expected_lines, expected_record)
          /\ job_id' = NextJobId(variant_idx)
    /\ IF variant_idx + 1 < bundle_args.variants_per_demo
       THEN /\ variant_idx' = variant_idx + 1
            /\ UNCHANGED <<bundlePc, video_idx>>
       ELSE /\ bundlePc' = "videos"
            /\ video_idx' = video_idx + 1
            /\ UNCHANGED variant_idx
    /\ UNCHANGED <<bundle_args, listing, input_videos, checksum_lines,
                   unique_demo_ids, bundleExit>>
    /\ UNCHANGED notBundleVars

\* 03:148-175: after the loop, the manifests and the metadata.
BundleWrite ==
    /\ bundlePc = "videos"
    /\ video_idx > Len(input_videos)
    /\ IF job_lines = <<>>
       THEN /\ BundleEnds("SystemExit(No input filenames matched expected pattern)")
            /\ UNCHANGED bundle_files
       ELSE /\ bundle_files' =
                  [bundle_files EXCEPT
                      !.jobs = job_lines,
                      !.expected = expected_lines,
                      !.checksums = checksum_lines,
                      !.metadata = [ source_video_files |-> Len(input_videos),
                                     unique_demo_ids |-> Cardinality(unique_demo_ids),
                                     jobs_total |-> Len(job_lines) ]]
            /\ BundleEnds("0")
    /\ UNCHANGED <<bundle_args, listing, input_videos, video_idx, variant_idx, job_id,
                   job_lines, expected_lines, checksum_lines, unique_demo_ids>>
    /\ UNCHANGED notBundleVars

\* The entries a videos directory may hold: exported clips, among them two
\* of one demo and one whose name sorts before that of a lower demo id; a
\* name without a demo number, one without a camera, one under another
\* name, one that ends in a newline, and a directory named as a clip.
BundleNames ==
    { DEMO_PREFIX \o <<"1", "_">> \o FRONT \o MP4_SUFFIX,
      DEMO_PREFIX \o <<"1", "0", "_">> \o FRONT \o MP4_SUFFIX,
      DEMO_PREFIX \o <<"0", "1", "_">> \o WRIST \o MP4_SUFFIX,
      DEMO_PREFIX \o <<"x", "_">> \o FRONT \o MP4_SUFFIX,
      DEMO_PREFIX \o <<"2", "_">> \o MP4_SUFFIX,
      <<"x">> \o MP4_SUFFIX,
      DEMO_PREFIX \o <<"2", "_">> \o FRONT \o MP4_SUFFIX \o <<NEWLINE>> }
    \cup Directories

\* --video-glob: its default, demo_*_*.mp4, and "*".
VideoGlobs == { DEMO_PREFIX \o <<"*", "_", "*">> \o MP4_SUFFIX, <<"*">> }

BundleArgs ==
    [ video_glob : VideoGlobs,
      variants_per_demo : 0..MaxVariants,
      base_seed : {0, 1000},
      prompt_profiles : { <<"lighting", "texture", "sensor">>, <<" ">> } ]

InitBundle ==
    /\ bundle_args \in BundleArgs
    /\ listing \in DistinctSeqsUpTo(BundleNames, MaxVideos)
    /\ bundlePc = "start" /\ input_videos = <<>>
    /\ video_idx = 1 /\ variant_idx = 0 /\ job_id = 0
    /\ job_lines = <<>> /\ expected_lines = <<>> /\ checksum_lines = <<>>
    /\ unique_demo_ids = {} /\ bundle_files = NoBundleFiles
    /\ bundleExit = "running"
    /\ dataset = NoEpisodesDataset
    /\ video_root = PathOf(<<"r">>)
    /\ hashOf = [k \in NonDigitKeys |-> 0]
    /\ proc = 1
    /\ IterIdle /\ ResolveIdle /\ StructIdle /\ ValidIdle /\ StageIdle
    /\ PromoteIdle /\ SampleIdle

NextBundle == BundleStart \/ BundleVideo \/ BundleVariant \/ BundleWrite

SpecBundle == InitBundle /\ [][NextBundle]_vars

---------------------------------------------------------------------------
(* Properties of iter_episode_views.                                       *)

\* A decimal numeral: a non-empty string of ASCII decimal digits.
IsDecimalNumeral(key) ==
    Len(key) > 0 /\ \A i \in 1..Len(key) : key[i] \in DecimalChars

\* The sort rule as stated: the integer value of a decimal numeral, the
\* absolute value of the hash of any other key.
StatedSortKey(key) ==
    IF IsDecimalNumeral(key) THEN IntOf(key) ELSE Abs(hashOf[key])

ViewKeys(views) == [i \in 1..Len(views) |-> views[i].episode_key]

\* C1: the views come in the sort order of their keys: the sort keys of the
\* yielded views (integer value of a decimal numeral, absolute hash of any
\* other key) never decrease, so "2" comes before "10"; and a generator that
\* has returned has yielded every key of the dataset exactly once.
IterYieldsInSortOrder ==
    /\ \A i, j \in 1..Len(yielded) :
          i < j => StatedSortKey(yielded[i].episode_key)
                     <= StatedSortKey(yielded[j].episode_key)
    /\ iterPc = "done" =>
          /\ Len(yielded) = Len(dataset.keys)
          /\ Range(ViewKeys(yielded)) = Range(dataset.keys)

\* The container enumerates "10" before "2" and the views come "2", "10".
IterSortWitness ==
    /\ iterPc = "done"
    /\ dataset.keys = << <<"1", "0">>, <<"2">> >>
    /\ ViewKeys(yielded) = << <<"2">>, <<"1", "0">> >>

\* Two keys without digits are ordered by the absolute value of their hash.
IterHashOrderWitness ==
    /\ iterPc = "done"
    /\ dataset.keys = << <<"a">>, <<"1", "a">> >>
    /\ hashOf[<<"a">>] = 2 /\ hashOf[<<"1", "a">>] = 0
    /\ ViewKeys(yielded) = << <<"1", "a">>, <<"a">> >>

\* C2 (as stated): two invocations on the same unchanged dataset and the same
\* video root yield the same views in the same order.
IterRestartable ==
    (/\ Len(history) = 2
     /\ dataset.hasEpisodes
     /\ dataset.keys # <<>>
     /\ \A k \in Range(dataset.keys) : dataset.eps[k] = ConformantEpisode
     /\ history[1].err = "none" /\ history[2].err = "none")
    => history[1].views = history[2].views

\* Two invocations inside one interpreter process do agree.
IterSameProcessStable ==
    (Len(history) = 2 /\ history[1].proc = history[2].proc)
    => /\ history[1].views = history[2].views
       /\ history[1].err = history[2].err

\* C3: a yielded view's demo_id is the integer value of its key when the key
\* is a decimal numeral, and otherwise a non-negative integer, the absolute
\* value of the key's hash.
DemoIdWellFormed ==
    \A i \in 1..Len(yielded) :
        LET v == yielded[i]
        IN IF IsDecimalNumeral(v.episode_key)
           THEN v.demo_id = IntOf(v.episode_key)
           ELSE v.demo_id >= 0 /\ v.demo_id = Abs(hashOf[v.episode_key])

\* Views of "01" (demo 1) and of "a" with a negative hash have been yielded.
DemoIdWitness ==
    /\ Len(yielded) = 2
    /\ \E i \in 1..2 : yielded[i].episode_key = <<"0", "1">> /\ yielded[i].demo_id = 1
    /\ \E i \in 1..2 : yielded[i].episode_key = <<"a">> /\ hashOf[<<"a">>] = -2
                       /\ yielded[i].demo_id = 2

\* C22 (as stated): two yielded views whose keys are distinct decimal
\* numerals have different demo_id values, and so different export file
\* names.
NumeralKeysHaveDistinctDemoIds ==
    \A i, j \in 1..Len(yielded) :
        (/\ yielded[i].episode_key # yielded[j].episode_key
         /\ IsDecimalNumeral(yielded[i].episode_key)
         /\ IsDecimalNumeral(yielded[j].episode_key))
        => /\ yielded[i].demo_id # yielded[j].demo_id
           /\ OutputName(yielded[i].demo_id, FRONT) # OutputName(yielded[j].demo_id, FRONT)

\* What int() leaves distinct: decimal numerals of different integer value.
NumeralKeysOfDistinctValueHaveDistinctDemoIds ==
    \A i, j \in 1..Len(yielded) :
        (/\ IsDecimalNumeral(yielded[i].episode_key)
         /\ IsDecimalNumeral(yielded[j].episode_key)
         /\ IntOf(yielded[i].episode_key) # IntOf(yielded[j].episode_key))
        => /\ yielded[i].demo_id # yielded[j].demo_id
           /\ OutputName(yielded[i].demo_id, FRONT) # OutputName(yielded[j].demo_id, FRONT)

\* The keys "1" and "01" of one dataset have both been yielded as demo 1.
LeadingZeroKeysShareDemoIdWitness ==
    /\ iterPc = "done"
    /\ Range(ViewKeys(yielded)) = { <<"1">>, <<"0", "1">> }
    /\ yielded[1].demo_id = 1 /\ yielded[2].demo_id = 1
    /\ OutputName(yielded[1].demo_id, FRONT) = OutputName(yielded[2].demo_id, FRONT)

---------------------------------------------------------------------------
(* Properties of resolve_video_path.                                       *)

MarkerPlaces(raw) == {i \in 1..Len(raw) : OccursAt(raw, VIDEO_PATH_MARKER, i)}

\* C4: the result is the root joined with the text after the first "videos/"
\* when the raw path contains the marker (once or more), and the root joined
\* with the whole raw path when it does not.
ResolveKeepsTextAfterFirstMarker ==
    resolved # NoPath =>
        LET places == MarkerPlaces(raw_video_path)
        IN IF places = {}
           THEN resolved = PathJoin(video_root, raw_video_path)
           ELSE LET first == CHOOSE i \in places : \A j \in places : i <= j
                IN resolved = PathJoin(video_root,
                       SubSeq(raw_video_path, first + Len(VIDEO_PATH_MARKER),
                              Len(raw_video_path)))

\* A raw path with the marker twice has been resolved, and the text after
\* the first marker is not the text after the last.
ResolveTwiceWitness ==
    /\ resolved # NoPath
    /\ Cardinality(MarkerPlaces(raw_video_path)) = 2
    /\ resolved # ResolveVideoPathLast(video_root, raw_video_path)
    /\ resolved.parts = video_root.parts \o << <<"v", "i", "d", "e", "o", "s">>, <<"a">> >>

---------------------------------------------------------------------------
(* Properties of validate_episode_arrays.                                  *)

HasTag(tag) == \E i \in 1..Len(validation.issues) : validation.issues[i] = tag

\* x < y in IEEE arithmetic: false when either is NaN.
FloatLess(x, y) ==
    \/ x.cls = "fin" /\ y.cls = "fin" /\ x.v < y.v
    \/ x.cls = "ninf" /\ y.cls \in {"fin", "inf"}
    \/ x.cls = "fin" /\ y.cls = "inf"

\* Some element is strictly smaller than its predecessor.
IntDrop(a)   == \E i \in 1..Len(a) : i > 1 /\ a[i] < a[i - 1]
FloatDrop(a) == \E i \in 1..Len(a) : i > 1 /\ FloatLess(a[i], a[i - 1])

\* Some consecutive pair has no difference: one of the two is NaN, or both
\* are the same infinity.
FloatGap(a) ==
    \E i \in 1..Len(a) :
        /\ i > 1
        /\ \/ a[i].cls = "nan" \/ a[i - 1].cls = "nan"
           \/ a[i].cls = a[i - 1].cls /\ a[i].cls \in {"inf", "ninf"}

SameLengths(ep) ==
    \A n \in {ep.proprio.len, ep.eef_pose.len, Len(ep.frame_index), Len(ep.timestamps)} :
        n = ep.delta_eef.shape[1]

\* The episode's only defect is that its lengths differ.
OnlyLengthsDiffer(ep) ==
    /\ ~SameLengths(ep)
    /\ ep.delta_eef.finite /\ ep.proprio.finite /\ ep.eef_pose.finite
    /\ ~IntDrop(ep.frame_index)
    /\ ~FloatDrop(ep.timestamps) /\ ~FloatGap(ep.timestamps)
    /\ Len(ep.delta_eef.shape) = 2 /\ ep.delta_eef.shape[2] = 6

\* C9: the returned list holds length_mismatch exactly when proprio, eef_pose,
\* frame_index and timestamps do not all have the length of the action
\* array; an episode whose only defect is its lengths yields [length_mismatch].
LengthMismatchIffLengthsDiffer ==
    validation.err = "none" =>
        /\ HasTag("length_mismatch") <=> ~SameLengths(episode_in)
        /\ OnlyLengthsDiffer(episode_in) => validation.issues = <<"length_mismatch">>

\* Only the timestamps are one step short, and the list is [length_mismatch].
LengthMismatchWitness ==
    /\ validation.err = "none"
    /\ episode_in.delta_eef.shape = <<3, 6>>
    /\ episode_in.proprio.len = 3 /\ episode_in.eef_pose.len = 3
    /\ Len(episode_in.frame_index) = 3 /\ Len(episode_in.timestamps) = 2
    /\ validation.issues = <<"length_mismatch">>

\* C10 (as stated): each monotonicity tag is reported exactly when some
\* element of its sequence is strictly smaller than its predecessor.
MonotonicTagsIffStrictDecrease ==
    validation.err = "none" =>
        /\ HasTag("frame_index_not_monotonic") <=> IntDrop(episode_in.frame_index)
        /\ HasTag("timestamps_not_monotonic") <=> FloatDrop(episode_in.timestamps)

\* C10 (amended): frame_index_not_monotonic is reported exactly when some
\* frame index is strictly smaller than its predecessor; timestamps_not_monotonic
\* exactly when some consecutive difference of timestamps is not >= 0: a
\* strict decrease, or a NaN difference (a NaN timestamp, or two equal
\* infinities in a row). Equal finite neighbours and sequences of length 0
\* or 1 give no tag.
MonotonicTagsIffDifferenceNotNonNegative ==
    validation.err = "none" =>
        /\ HasTag("frame_index_not_monotonic") <=> IntDrop(episode_in.frame_index)
        /\ HasTag("timestamps_not_monotonic")
             <=> (FloatDrop(episode_in.timestamps) \/ FloatGap(episode_in.timestamps))
        /\ Len(episode_in.frame_index) <= 1 => ~HasTag("frame_index_not_monotonic")
        /\ Len(episode_in.timestamps) <= 1 => ~HasTag("timestamps_not_monotonic")

\* Frame indices [0, 0, 1, 2, 2, 3] give no tag while timestamps [0, NaN],
\* which never decrease, give theirs.
MonotonicWitness ==
    /\ validation.err = "none"
    /\ episode_in.frame_index = <<0, 0, 1, 2, 2, 3>>
    /\ ~HasTag("frame_index_not_monotonic")
    /\ episode_in.timestamps = <<Fin(0), NaN>>
    /\ HasTag("timestamps_not_monotonic")

\* Frame indices [0, 2, 1] give the tag.
MonotonicDropWitness ==
    /\ validation.err = "none"
    /\ episode_in.frame_index = <<0, 2, 1>>
    /\ HasTag("frame_index_not_monotonic")

\* The tags in the order the validator reports them.
TagOrder ==
    << "length_mismatch", "delta_eef_non_finite", "proprio_non_finite",
       "eef_pose_non_finite", "frame_index_not_monotonic",
       "timestamps_not_monotonic", "delta_eef_shape_not_Tx6" >>

\* The check a tag stands for is violated by the episode.
Violated(tag, ep) ==
    CASE tag = "length_mismatch"           -> ~SameLengths(ep)
      [] tag = "delta_eef_non_finite"      -> ~ep.delta_eef.finite
      [] tag = "proprio_non_finite"        -> ~ep.proprio.finite
      [] tag = "eef_pose_non_finite"       -> ~ep.eef_pose.finite
      [] tag = "frame_index_not_monotonic" -> IntDrop(ep.frame_index)
      [] tag = "timestamps_not_monotonic"  -> FloatDrop(ep.timestamps) \/ FloatGap(ep.timestamps)
      [] tag = "delta_eef_shape_not_Tx6"   ->
            ~(Len(ep.delta_eef.shape) = 2 /\ ep.delta_eef.shape[2] = 6)

\* C11: the returned list is the tags of the violated checks, each once, in
\* the order length_mismatch, delta_eef_non_finite, proprio_non_finite,
\* eef_pose_non_finite, frame_index_not_monotonic, timestamps_not_monotonic,
\* delta_eef_shape_not_Tx6; a conformant episode gives the empty list.
IssuesAreViolatedTagsInOrder ==
    validation.err = "none" =>
        /\ validation.issues =
              SelectSeq(TagOrder, LAMBDA tag : Violated(tag, episode_in))
        /\ episode_in = ConformantEpisode => validation.issues = <<>>

\* Three checks are violated at once and their tags come together, the
\* shape tag last.
SeveralTagsWitness ==
    /\ validation.err = "none"
    /\ validation.issues =
          <<"length_mismatch", "proprio_non_finite", "delta_eef_shape_not_Tx6">>

\* The conformant episode has been validated and has no issues.
ConformantNoIssuesWitness ==
    /\ validation.err = "none"
    /\ episode_in = ConformantEpisode
    /\ validation.issues = <<>>

\* C12: with its five arrays present the validator returns a list, whatever
\* the arrays hold; it raises only when one of them is absent.
ValidatorRaisesOnlyOnAbsentArray ==
    validation # NotCalled =>
        (validation.err = "none" <=> ValidatorReadPaths \subseteq episode_in.present)

\* The validator has raised on an episode that has all five arrays: its
\* action array is zero-dimensional.
ValidatorRaisedOnScalarActionWitness ==
    /\ validation # NotCalled
    /\ ValidatorReadPaths \subseteq episode_in.present
    /\ episode_in.delta_eef.shape = <<>>
    /\ validation.err = "TypeError"

---------------------------------------------------------------------------
(* Properties of assert_required_structure.                                *)

Position(seq, x) == CHOOSE i \in 1..Len(seq) : seq[i] = x

\* The first episode in sorted order: its sort key is the least, and among
\* equal sort keys it is the one the container enumerates first.
FirstInSortedOrder(ds) ==
    CHOOSE k \in Range(ds.keys) :
        \A j \in Range(ds.keys) :
            \/ StatedSortKey(k) < StatedSortKey(j)
            \/ StatedSortKey(k) = StatedSortKey(j)
               /\ Position(ds.keys, k) <= Position(ds.keys, j)

\* The keys have a sorted order: none is a digit string that int() rejects.
HasSortedOrder(ds) ==
    \A k \in Range(ds.keys) : IsDigit(k) => IsDecimalNumeral(k)

\* C5: the check fails with a schema error when the dataset has no episodes
\* group and when that group is empty, and in both cases opens no episode.
NoEpisodesIsSchemaError ==
    structure # NotCalled =>
        /\ ~dataset.hasEpisodes =>
              structure.err = "ValueError: unsupported schema" /\ structure.read = {}
        /\ (dataset.hasEpisodes /\ dataset.keys = <<>>) =>
              structure.err = "ValueError: zero episodes" /\ structure.read = {}

\* The check has been run on an empty episodes group.
ZeroEpisodesWitness ==
    /\ dataset.hasEpisodes /\ dataset.keys = <<>>
    /\ structure # NotCalled
    /\ structure.err = "ValueError: zero episodes"

\* The check has been run on a dataset without an episodes group.
NoGroupWitness ==
    /\ ~dataset.hasEpisodes
    /\ structure # NotCalled
    /\ structure.err = "ValueError: unsupported schema"

\* C6: when the first episode in sorted order lacks required paths, the check
\* fails with a schema error that lists exactly the required paths absent
\* from that episode, each once; when it lacks none, the check returns.
MissingPathsListedExactly ==
    (/\ structure # NotCalled
     /\ dataset.hasEpisodes /\ dataset.keys # <<>>
     /\ HasSortedOrder(dataset))
    => LET absent == RequiredPathSet \ dataset.eps[FirstInSortedOrder(dataset)].present
       IN IF absent # {}
          THEN /\ structure.err = "ValueError: missing required paths"
               /\ Range(structure.missing) = absent
               /\ Len(structure.missing) = Cardinality(absent)
          ELSE structure.err = "none"

\* The first episode "2" lacks two paths, which are listed, while the
\* episode "10" after it lacks another path, which is not.
MissingPathsWitness ==
    /\ structure # NotCalled
    /\ dataset.keys = << <<"1", "0">>, <<"2">> >>
    /\ dataset.eps[<<"2">>].present =
          RequiredPathSet \ {"meta/video/fps", "obs/eef_pose"}
    /\ dataset.eps[<<"1", "0">>].present = RequiredPathSet \ {"obs/proprio", "action/delta_eef"}
    /\ structure.missing = <<"obs/eef_pose", "meta/video/fps">>

\* Only meta/video/fps is absent from the first episode and only it is listed.
MissingFpsWitness ==
    /\ structure # NotCalled
    /\ Len(dataset.keys) = 2
    /\ structure.err = "ValueError: missing required paths"
    /\ structure.missing = <<"meta/video/fps">>

---------------------------------------------------------------------------
(* The iterator and the validator together.                                *)

\* Every episode has the ten required paths, so that the episodes differ
\* in the content of their arrays only.
AllPathsPresent(ds) ==
    \A k \in Range(ds.keys) : RequiredPathSet \subseteq ds.eps[k].present

\* C13 (as stated): the iterator does not look into the arrays, so on a
\* dataset whose episodes have every required path it ends normally with one
\* view for every key, whatever the arrays hold.
IterYieldsViewPerKeyWhateverArraysHold ==
    (/\ iterPc \in {"done", "error"}
     /\ dataset.hasEpisodes
     /\ HasSortedOrder(dataset)
     /\ AllPathsPresent(dataset))
    => /\ iterPc = "done"
       /\ Len(yielded) = Len(dataset.keys)
       /\ Range(ViewKeys(yielded)) = Range(dataset.keys)

\* The iterator stops with IndexError at an episode that has every required
\* path and a zero-dimensional action array.
IterRaisedOnScalarActionWitness ==
    /\ iterPc = "error"
    /\ iterErr = "IndexError"
    /\ HasSortedOrder(dataset)
    /\ AllPathsPresent(dataset)
    /\ Len(yielded) < Len(dataset.keys)

\* The part of C13 that holds: in the validation stage a NaN in an
\* episode's pose array does not keep its view from being yielded, and the
\* issues recorded for an episode are those of its own arrays and video.
\* With episodes "0" (conformant) and "1" (a NaN in eef_pose) the views come
\* in the order "0", "1" and the one issue record is [eef_pose_non_finite]
\* for "1".
NaNEpisodeIsYieldedAndTaggedAlone ==
    (args.stage = "validate" /\ pc \in {"write_manifest", "write_report", "finish"}) =>
        /\ \A i \in 1..Len(manifest_rows) :
              manifest_rows[i].episode_key = episode_views[i].episode_key
        /\ \A i \in 1..Len(issue_records) :
              LET key == issue_records[i].episode_key
              IN issue_records[i].issues =
                    SelectSeq(TagOrder, LAMBDA tag : Violated(tag, dataset.eps[key]))
                    \o (IF ResolveVideoPath(video_root, dataset.eps[key].video_path)
                              \in fsys.videos
                        THEN <<>> ELSE <<"video_file_missing">>)
        /\ (/\ Range(dataset.keys) = {<<"0">>, <<"1">>}
            /\ dataset.eps[<<"0">>] = ConformantEpisode
            /\ ~dataset.eps[<<"1">>].eef_pose.finite
            /\ fsys.videos # {})
           => /\ ViewKeys(episode_views) = << <<"0">>, <<"1">> >>
              /\ issue_records = << [demo_id |-> 1, episode_key |-> <<"1">>,
                                     issues |-> <<"eef_pose_non_finite">>] >>

\* The container enumerates "1" before "0"; the stage has validated both.
NaNEpisodeWitness ==
    /\ args.stage = "validate" /\ pc = "finish"
    /\ dataset.keys = << <<"1">>, <<"0">> >>
    /\ dataset.eps[<<"0">>] = ConformantEpisode
    /\ ~dataset.eps[<<"1">>].eef_pose.finite
    /\ fsys.videos # {}
    /\ Len(issue_records) = 1

---------------------------------------------------------------------------
(* Properties of the stages.                                               *)

\* The episodes other than the first in sorted order.
LaterEpisodes(ds) == Range(ds.keys) \ {FirstInSortedOrder(ds)}

\* C7: the check inspects the first episode in sorted order and no other:
\* when that episode has all ten required paths the check succeeds whatever
\* the other episodes lack, and the first view the iterator yields is of
\* the episode the check inspected.
AssertInspectsOnlyFirstSortedEpisode ==
    (structure # NotCalled /\ dataset.hasEpisodes /\ dataset.keys # <<>>
        /\ HasSortedOrder(dataset)) =>
        /\ structure.first_key = FirstInSortedOrder(dataset)
        /\ structure.read \subseteq {FirstInSortedOrder(dataset)}
        /\ MissingPaths(dataset.eps[FirstInSortedOrder(dataset)]) = <<>>
              => structure.err = "none"
        /\ yielded # <<>> => yielded[1].episode_key = structure.first_key

\* The check has passed on a dataset whose later episode lacks a required
\* path, and the iterator has yielded its first view.
AssertPassedDespiteLaterGapWitness ==
    /\ structure # NotCalled
    /\ structure.err = "none"
    /\ Len(dataset.keys) = 2
    /\ HasSortedOrder(dataset)
    /\ \E k \in LaterEpisodes(dataset) : MissingPaths(dataset.eps[k]) # <<>>
    /\ yielded # <<>>
    /\ yielded[1].episode_key = structure.first_key

\* C8: in both stages nothing is listed before the structure check has run,
\* and when the check fails the stage ends with the check's error, the file
\* closed, no view built, no episode validated or exported, and no manifest,
\* report or checksum file written.
StructureFailureAbortsStage ==
    /\ structure = NotCalled =>
          iterPc = "idle" /\ yielded = <<>> /\ episode_views = <<>>
    /\ (structure # NotCalled /\ structure.err # "none") =>
          /\ pc = "exit" /\ exit = structure.err /\ handle = "closed"
          /\ iterPc = "idle" /\ yielded = <<>> /\ history = <<>>
          /\ episode_views = <<>>
          /\ validation = NotCalled
          /\ issue_records = <<>> /\ manifest_rows = <<>> /\ checksums = <<>>
          /\ counters = NoCounters /\ encoder_calls = <<>>
          /\ fsys.manifest = "absent" /\ fsys.report = "absent"
          /\ fsys.checksums = "absent"

\* The export stage has ended on the missing-paths error of the check.
ExportAbortedOnStructureWitness ==
    /\ args.stage = "export"
    /\ structure # NotCalled
    /\ structure.err = "ValueError: missing required paths"
    /\ structure.missing = <<"meta/video/fps">>
    /\ pc = "exit"
    /\ exit = structure.err

\* The validation stage has ended on the zero-episodes error of the check.
ValidationAbortedOnStructureWitness ==
    /\ args.stage = "validate"
    /\ structure # NotCalled
    /\ structure.err = "ValueError: zero episodes"
    /\ pc = "exit"
    /\ exit = structure.err

\* The issues of one episode as the validation stage is to see them: the
\* tags of its violated array checks, then video_file_missing when the
\* video its view points at is not there.
EpisodeIssues(ds, key) ==
    SelectSeq(TagOrder, LAMBDA tag : Violated(tag, ds.eps[key]))
    \o (IF ResolveVideoPath(video_root, ds.eps[key].video_path) \in fsys.videos
        THEN <<>> ELSE <<"video_file_missing">>)

\* Every episode can be read: it has the ten required paths and its action
\* array has a first dimension.
AllEpisodesReadable(ds) ==
    \A k \in Range(ds.keys) :
        RequiredPathSet \subseteq ds.eps[k].present /\ ds.eps[k].delta_eef.shape # <<>>

\* The validation stage has ended after writing a record for every episode
\* and an issue record for every episode with an issue, failing exactly
\* when there is such an episode.
ValidationWroteAllThenDecided ==
    /\ exit \in {"0", "SystemExit(1)"}
    /\ fsys.manifest = "written" /\ fsys.report = "written"
    /\ cursor > Len(episode_views)
    /\ ViewKeys(manifest_rows) = SortedKeys(dataset.keys)
    /\ ViewKeys(issue_records) =
          SelectSeq(SortedKeys(dataset.keys),
                    LAMBDA k : EpisodeIssues(dataset, k) # <<>>)
    /\ exit = "SystemExit(1)"
          <=> \E k \in Range(dataset.keys) : EpisodeIssues(dataset, k) # <<>>

ValidationAbortedAtLaterEpisodeWitness ==
    /\ args.stage = "validate" /\ pc = "exit" /\ exit = "KeyError"
    /\ structure # NotCalled /\ structure.err = "none"
    /\ fsys.manifest = "absent" /\ fsys.report = "absent"

\* The manifest rows of the export stage whose episode has its source
\* video in place and a clip duration that is not positive.
NonPositiveClipRows ==
    { i \in 1..Len(manifest_rows) :
        /\ manifest_rows[i].source_video_path \in fsys.videos
        /\ manifest_rows[i].to_timestamp - manifest_rows[i].from_timestamp <= 0 }

FailedRows == { i \in 1..Len(manifest_rows) : manifest_rows[i].status = "failed" }

\* C15 (as stated): in the export stage every episode whose source video
\* exists and whose clip duration is not positive is recorded as failed and
\* counted in failed_exports, without a run of the encoder, and the episodes
\* after it are still processed.
NonPositiveClipAlwaysFails ==
    args.stage = "export" =>
        \A i \in NonPositiveClipRows :
            /\ manifest_rows[i].status = "failed"
            /\ manifest_rows[i].episode_key \notin Range(encoder_calls)

\* C15 (amended): such an episode is recorded as failed and counted in
\* failed_exports when the run is not a dry run and the output is not
\* skipped as existing; its status is skipped_existing when the output is
\* there and --overwrite is not given, and exported in a dry run. In no
\* case is the encoder run for it, the stage never ends on its failure,
\* and a stage that reaches its end has a row for every episode.
NonPositiveClipFailsWhenEncodingIsDue ==
    args.stage = "export" =>
        /\ \A i \in NonPositiveClipRows :
              /\ manifest_rows[i].episode_key \notin Range(encoder_calls)
              /\ manifest_rows[i].status =
                    IF manifest_rows[i].status = "skipped_existing"
                    THEN "skipped_existing"
                    ELSE IF args.dry_run THEN "exported" ELSE "failed"
              /\ manifest_rows[i].status = "skipped_existing" =>
                    /\ ~args.overwrite
                    /\ manifest_rows[i].output_video_name \in fsys.outputs
              /\ (args.overwrite
                    \/ manifest_rows[i].output_video_name \notin fsys.outputs)
                 => manifest_rows[i].status # "skipped_existing"
        /\ counters.failed_exports = Cardinality(FailedRows)
        /\ \A i \in FailedRows :
              i \in NonPositiveClipRows
                 \/ manifest_rows[i].episode_key \in Range(encoder_calls)
        /\ exit # "CalledProcessError"
        /\ (pc = "exit" /\ exit = "FileNotFoundError") =>
              episode_views[cursor].to_timestamp - episode_views[cursor].from_timestamp > 0
        /\ (pc = "exit" /\ exit \in {"0", "SystemExit(1)"}) =>
              Len(manifest_rows) = Len(episode_views)

\* The first of two episodes has a clip of zero duration and is recorded
\* as failed without a run of the encoder; the second has been exported.
FailedClipThenExportWitness ==
    /\ args.stage = "export" /\ ~args.dry_run
    /\ Len(manifest_rows) = 2
    /\ 1 \in NonPositiveClipRows
    /\ manifest_rows[1].status = "failed"
    /\ manifest_rows[2].status = "exported"
    /\ encoder_calls = <<manifest_rows[2].episode_key>>
    /\ counters.failed_exports = 1

\* A dry run has recorded an episode with a clip of zero duration as exported.
DryRunExportsEmptyClipWitness ==
    /\ args.stage = "export" /\ args.dry_run
    /\ \E i \in NonPositiveClipRows : manifest_rows[i].status = "exported"

\* C16: in both stages the dataset file is open only between the opening of
\* the with block and its end; a stage that has exited, normally or with
\* an error of the structure check, of the iterator or of an episode, has
\* closed the file it opened, and a file once closed is not opened again.
HandleReleasedAtExit ==
    /\ handle = "open" <=> pc \in {"assert", "list", "loop"}
    /\ handle = "unopened" <=>
          (pc \in {"start", "open"} \/ (pc = "exit" /\ structure = NotCalled))
    /\ pc = "exit" => handle # "open"
    /\ (pc = "exit" /\ structure # NotCalled) => handle = "closed"

\* The structure check passed, the iterator then raised KeyError, and the
\* stage has exited with the file closed.
HandleClosedAfterIteratorErrorWitness ==
    /\ pc = "exit" /\ exit = "KeyError"
    /\ structure # NotCalled /\ structure.err = "none"
    /\ iterPc = "error"
    /\ handle = "closed"

\* The export stage has exited on the encoder's FileNotFoundError with the
\* file closed.
HandleClosedAfterEncoderErrorWitness ==
    /\ args.stage = "export"
    /\ pc = "exit" /\ exit = "FileNotFoundError"
    /\ handle = "closed"

\* A stage has run to its end and the file is closed.
HandleClosedAfterCompletionWitness ==
    /\ pc = "exit" /\ exit = "0"
    /\ handle = "closed"

\* The file name a manifest row carries: expected_export_name in the
\* validation stage, output_video_name in the export stage.
RowExportName(row) ==
    IF args.stage = "validate" THEN row.expected_export_name ELSE row.output_video_name

\* demo_, four decimal digits, an underscore, and the rest.
HasFourDigitId(name) ==
    /\ Len(name) >= Len(DEMO_PREFIX) + 5
    /\ SubSeq(name, 1, Len(DEMO_PREFIX)) = DEMO_PREFIX
    /\ \A i \in 1..4 : name[Len(DEMO_PREFIX) + i] \in DecimalChars
    /\ name[Len(DEMO_PREFIX) + 5] = "_"

\* C17 (as stated): the export name built from the demo_id of any view
\* renders the id as exactly four decimal digits.
ExportNameHasFourDigitId ==
    \A i \in 1..Len(manifest_rows) : HasFourDigitId(RowExportName(manifest_rows[i]))

\* What holds: an id below 10000 is rendered as four digits that read back
\* as the id, and a greater id as its own digits, more than four.
ExportNameHasFourDigitIdBelow10000 ==
    \A i \in 1..Len(manifest_rows) :
        LET name == RowExportName(manifest_rows[i])
            id   == manifest_rows[i].demo_id
        IN /\ HasFourDigitId(name) <=> id < 10000
           /\ id < 10000 =>
                 IntOf(SubSeq(name, Len(DEMO_PREFIX) + 1, Len(DEMO_PREFIX) + 4)) = id

\* The key "12345" has the export name demo_12345_front.mp4.
FiveDigitNameWitness ==
    \E i \in 1..Len(manifest_rows) :
        /\ manifest_rows[i].episode_key = <<"1", "2", "3", "4", "5">>
        /\ RowExportName(manifest_rows[i])
              = DEMO_PREFIX \o <<"1", "2", "3", "4", "5", "_">> \o FRONT \o MP4_SUFFIX

\* A key without digits whose hash has six digits has a six-digit name.
WideHashNameWitness ==
    \E i \in 1..Len(manifest_rows) :
        /\ manifest_rows[i].episode_key = <<"a">>
        /\ manifest_rows[i].demo_id = WideHash
        /\ ~HasFourDigitId(RowExportName(manifest_rows[i]))

\* The key "1" has the export name demo_0001_front.mp4.
FourDigitNameWitness ==
    \E i \in 1..Len(manifest_rows) :
        /\ manifest_rows[i].episode_key = <<"1">>
        /\ RowExportName(manifest_rows[i])
              = DEMO_PREFIX \o <<"0", "0", "0", "1", "_">> \o FRONT \o MP4_SUFFIX

\* C20 (as stated): a dry run of the export stage runs no encoder and
\* creates or modifies no file.
DryRunWritesNoFile ==
    (args.stage = "export" /\ args.dry_run) =>
        /\ encoder_calls = <<>>
        /\ fsys.outputs \in {{}, OutputNames(dataset)}
        /\ fsys.manifest = "absent" /\ fsys.report = "absent"
        /\ fsys.checksums = "absent"

\* What holds of a dry run: no encoder is run, no output video and no
\* checksum file is written; the manifest and the report are written as in
\* any other run.
DryRunWritesNoVideo ==
    (args.stage = "export" /\ args.dry_run) =>
        /\ encoder_calls = <<>>
        /\ fsys.outputs \in {{}, OutputNames(dataset)}
        /\ checksums = <<>> /\ fsys.checksums = "absent"
        /\ (pc = "exit" /\ exit \in {"0", "SystemExit(1)"}) =>
              fsys.manifest = "written" /\ fsys.report = "written"

\* A dry run has ended with an episode planned as exported, no encoder run
\* and no output video, and with the manifest and the report written.
DryRunWroteManifestWitness ==
    /\ args.stage = "export" /\ args.dry_run
    /\ pc = "exit" /\ exit = "0"
    /\ manifest_rows # <<>>
    /\ manifest_rows[1].status = "exported"
    /\ encoder_calls = <<>> /\ fsys.outputs = {}
    /\ fsys.manifest = "written" /\ fsys.report = "written"

\* The rows of the manifest that carry an episode key.
RowsOfKey(key) ==
    {i \in 1..Len(manifest_rows) : manifest_rows[i].episode_key = key}

\* The four counters of the report, added up.
CounterSum ==
    counters.exported_count + counters.skipped_existing
        + counters.missing_sources + counters.failed_exports

\* The status of a row is the first that applies of missing_source,
\* skipped_existing, failed, exported. Outputs only ever appear during a
\* run, so an output absent now was absent when the row was written.
RowStatusFollowsPriority(i) ==
    LET row == manifest_rows[i] IN
    /\ row.status \in {"missing_source", "skipped_existing", "failed", "exported"}
    /\ row.status = "missing_source" <=> row.source_video_path \notin fsys.videos
    /\ row.status = "skipped_existing" =>
          /\ ~args.overwrite
          /\ row.output_video_name \in fsys.outputs
          /\ row.episode_key \notin Range(encoder_calls)
    /\ (row.source_video_path \in fsys.videos
          /\ (args.overwrite \/ row.output_video_name \notin fsys.outputs))
       => row.status \in {"failed", "exported"}
    /\ row.status = "failed" =>
          /\ ~args.dry_run
          /\ row.to_timestamp - row.from_timestamp <= 0
                \/ row.episode_key \in Range(encoder_calls)
    /\ (row.status = "exported" /\ ~args.dry_run) =>
          /\ row.episode_key \in Range(encoder_calls)
          /\ row.output_video_name \in fsys.outputs
          /\ row.to_timestamp - row.from_timestamp > 0

\* C21 (as stated): in the export stage every episode the loop has taken up
\* has exactly one row, whose status is the first that applies of
\* missing_source, skipped_existing (the output untouched), failed (the
\* encode failed) and exported; after each episode the four counters add up
\* to the number of rows.
EveryConsideredEpisodeHasOneStatus ==
    args.stage = "export" =>
        /\ \A i \in 1..Len(manifest_rows) : RowStatusFollowsPriority(i)
        /\ CounterSum = Len(manifest_rows)
        /\ \A i \in 1..Len(episode_views) :
              (i < cursor \/ episode_views[i].episode_key \in Range(encoder_calls))
                 => Cardinality(RowsOfKey(episode_views[i].episode_key)) = 1

\* What holds: every episode whose turn of the loop came to its end has one
\* row with the status of the priority order, and the counters add up to
\* the number of rows. An episode whose encoder could not be started has no
\* row, and the run ends with it.
EveryFinishedTurnHasOneStatus ==
    args.stage = "export" =>
        /\ \A i \in 1..Len(manifest_rows) : RowStatusFollowsPriority(i)
        /\ CounterSum = Len(manifest_rows)
        /\ pc \in {"loop", "write_manifest", "write_report", "finish"}
              => Len(manifest_rows) = cursor - 1
        /\ \A i \in 1..Len(manifest_rows) :
              /\ manifest_rows[i].episode_key = episode_views[i].episode_key
              /\ RowsOfKey(manifest_rows[i].episode_key) = {i}
        /\ \A i \in 1..Len(encoder_calls) :
              RowsOfKey(encoder_calls[i]) = {}
                 => /\ pc = "exit" /\ exit = "FileNotFoundError"
                    /\ i = Len(encoder_calls)

\* The encoder could not be started for the second episode: the run has
\* ended, the first episode, a clip of no duration, has its row and the
\* second has none.
EncoderMissingLeavesEpisodeWithoutStatusWitness ==
    /\ args.stage = "export" /\ pc = "exit" /\ exit = "FileNotFoundError"
    /\ Len(manifest_rows) = 1 /\ cursor = 2
    /\ manifest_rows[1].status = "failed"
    /\ encoder_calls = <<episode_views[2].episode_key>>
    /\ RowsOfKey(episode_views[2].episode_key) = {}

\* A run has given two episodes two different statuses, one of them failed
\* by the encoder, and its counters add up to its two rows.
TwoStatusesWitness ==
    /\ args.stage = "export" /\ pc = "exit" /\ exit = "SystemExit(1)"
    /\ Len(manifest_rows) = 2
    /\ manifest_rows[1].status = "exported"
    /\ manifest_rows[2].status = "failed"
    /\ Len(encoder_calls) = 2
    /\ counters.exported_count = 1 /\ counters.failed_exports = 1

---------------------------------------------------------------------------
(* Properties of the promotion stage.                                      *)

\* C18: the promotion stage copies over an existing canonical file only
\* when its content differs and --force is given; when the content differs
\* and --force is absent it exits with the canonical file and the metadata
\* as they were; a run that completes leaves the canonical content equal to
\* the incoming content; and a run after a completed run makes no copy and
\* leaves the same canonical file.
PromotionOverwritesOnlyWithForce ==
    promotePc = "exit" =>
        /\ (before.canonical # "absent" /\ copies > 0) =>
              force /\ before.canonical # incoming_hdf5
        /\ (incoming_hdf5 # "absent" /\ before.canonical # "absent"
               /\ before.canonical # incoming_hdf5 /\ ~force) =>
              /\ promoteExit = "SystemExit: target exists and differs"
              /\ canonical_hdf5 = before.canonical
              /\ meta_out = before.meta
              /\ copies = 0
        /\ promoteExit = "0" =>
              /\ canonical_hdf5 = incoming_hdf5
              /\ meta_out = Metadata(incoming_hdf5, incoming_hdf5)
              /\ copies <= 1
        /\ (promote_runs # <<>> /\ promote_runs[Len(promote_runs)].exit = "0") =>
              /\ promoteExit = "0"
              /\ copies = 0
              /\ canonical_hdf5 = promote_runs[Len(promote_runs)].canonical

\* Without --force the stage has exited on a canonical file that differs
\* from the incoming one, and the canonical file is as it was.
PromotionRefusedWitness ==
    /\ promotePc = "exit"
    /\ ~force
    /\ incoming_hdf5 = "A" /\ before.canonical = "B"
    /\ promoteExit = "SystemExit: target exists and differs"
    /\ canonical_hdf5 = "B"
    /\ meta_out = NoMeta

\* With --force the stage overwrote the canonical file, and the run after
\* it has ended without a copy.
PromotionRerunWitness ==
    /\ promotePc = "exit" /\ promoteExit = "0"
    /\ promote_runs # <<>>
    /\ promote_runs[1].exit = "0" /\ promote_runs[1].copies = 1
    /\ copies = 0
    /\ canonical_hdf5 = incoming_hdf5

---------------------------------------------------------------------------
(* Properties of _sample_augmented_jobs.                                   *)

\* The task texts that occur among the jobs.
TaskGroups == {TaskOf(jobs[i]) : i \in 1..Len(jobs)}

RowsOfTask(rows, t) == {i \in 1..Len(rows) : TaskOf(rows[i]) = t}

\* The rows are jobs of the input, none of them twice.
DuplicateFreeSubset(rows) ==
    /\ \A i, j \in 1..Len(rows) : i # j => rows[i] # rows[j]
    /\ Range(rows) \subseteq Range(jobs)

\* The share of a group of n jobs: n times the ratio, rounded up, and no
\* more than n.
StatedShare(n) ==
    IF n * ratio.num >= n * ratio.den THEN n
    ELSE CHOOSE k \in 1..n : k * ratio.den >= n * ratio.num
                              /\ (k - 1) * ratio.den < n * ratio.num

RECURSIVE SumOfShares(_)
SumOfShares(tasks) ==
    IF tasks = {} THEN 0
    ELSE LET t == CHOOSE x \in tasks : TRUE
         IN StatedShare(Cardinality(Group(t))) + SumOfShares(tasks \ {t})

\* The cap is given and smaller than the stratified sample.
CapBinds == max_items.given /\ SumOfShares(TaskGroups) > max_items.n

\* C19 (as stated): with ratio > 0 and jobs to sample from, the returned
\* sample is a duplicate-free subset of the jobs with at least one job of
\* every task-text group; with ratio <= 0 or no jobs it is empty.
SampleCoversEveryTaskGroup ==
    samplePc = "done" =>
        IF ratio.num <= 0 \/ jobs = <<>>
        THEN sample_out = [err |-> "none", rows |-> <<>>]
        ELSE /\ sample_out.err = "none"
             /\ DuplicateFreeSubset(sample_out.rows)
             /\ \A t \in TaskGroups : RowsOfTask(sample_out.rows, t) # {}

\* C19 (amended): the same when no cap is given or the cap is not smaller
\* than the stratified sample, each group then giving its share; under a
\* smaller cap the sample is a duplicate-free subset of exactly max_items
\* jobs, which may leave groups out, and a negative cap makes the call
\* raise ValueError. The rows come sorted by demo id and variant.
SampleCoversEveryTaskGroupUnlessCapped ==
    samplePc = "done" =>
        IF ratio.num <= 0 \/ jobs = <<>>
        THEN sample_out = [err |-> "none", rows |-> <<>>]
        ELSE IF ~CapBinds
        THEN /\ sample_out.err = "none"
             /\ DuplicateFreeSubset(sample_out.rows)
             /\ \A t \in TaskGroups :
                   /\ RowsOfTask(sample_out.rows, t) # {}
                   /\ Cardinality(RowsOfTask(sample_out.rows, t))
                         = StatedShare(Cardinality(Group(t)))
             /\ \A i \in 1..Len(sample_out.rows) :
                   i > 1 => JobBefore(sample_out.rows[i - 1], sample_out.rows[i])
        ELSE IF max_items.n < 0
        THEN sample_out.err = "ValueError"
        ELSE /\ sample_out.err = "none"
             /\ DuplicateFreeSubset(sample_out.rows)
             /\ Len(sample_out.rows) = max_items.n

\* Three jobs in two task groups, a ratio of one quarter, no cap: the
\* sample has one job of each group.
StratifiedSampleWitness ==
    /\ samplePc = "done"
    /\ Len(jobs) = 3
    /\ ratio = [num |-> 1, den |-> 4]
    /\ ~max_items.given
    /\ Cardinality(TaskGroups) = 2
    /\ Len(sample_out.rows) = 2
    /\ \A t \in TaskGroups : Cardinality(RowsOfTask(sample_out.rows, t)) = 1

\* Two task groups under a cap of one: the sample has a job of one group
\* and none of the other.
CappedSampleMissesGroupWitness ==
    /\ samplePc = "done"
    /\ ratio.num > 0
    /\ max_items = [given |-> TRUE, n |-> 1]
    /\ Cardinality(TaskGroups) = 2
    /\ sample_out.err = "none"
    /\ Len(sample_out.rows) = 1

---------------------------------------------------------------------------
(* Properties of the job bundle builder.                                   *)

\* demo_<digits>_<camera>.mp4: "demo_", one or more decimal digits, "_", a
\* camera key of one or more characters, ".mp4", and nothing after it.
StatedDemoName(name) ==
    \E d \in 1..Len(name) :
        /\ Len(name) >= 5 + d + 1 + 1 + 4
        /\ SubSeq(name, 1, 5) = DEMO_PREFIX
        /\ \A i \in 6..(5 + d) : name[i] \in DecimalChars
        /\ name[6 + d] = "_"
        /\ SubSeq(name, Len(name) - 3, Len(name)) = MP4_SUFFIX

\* The number a matching name carries after "demo_".
StatedDemoId(name) == IntOf(SubSeq(name, 6, 5 + DigitRun(name, 6)))

\* A name counts as matching by the stated pattern, or by the pattern as
\* the code applies it.
Matches(name, stated) ==
    IF stated THEN StatedDemoName(name) ELSE parse_demo_filename(name).matched

\* The videos the outer loop has finished with.
VideosDone ==
    SubSeq(input_videos, 1,
           IF bundlePc = "exit" /\ bundleExit = "0" THEN Len(input_videos)
           ELSE IF bundlePc \in {"videos", "variants"} THEN video_idx - 1
           ELSE 0)

\* The jobs collected are those of the matching videos taken in sorted
\* order, each video's variants in turn, numbered from job_000000 upwards
\* without gap or repeat, each with one request file of its own and the
\* seed base_seed + demo_id * 1000 + variant_idx; a video that does not
\* match has no job; a finished run has written these jobs.
JobsWellFormed(stated) ==
    /\ \A i, j \in 1..Len(job_lines) :
          i < j =>
             /\ ~StrLess(job_lines[j].input_video, job_lines[i].input_video)
             /\ job_lines[i].input_video = job_lines[j].input_video
                   => job_lines[i].variant_idx < job_lines[j].variant_idx
    /\ \A i \in 1..Len(job_lines) :
          LET job == job_lines[i] IN
          /\ job.input_video \in Range(input_videos)
          /\ Matches(job.input_video, stated)
          /\ job.job_id = JobIdText(i - 1)
          /\ job.variant_idx \in 0..(bundle_args.variants_per_demo - 1)
          /\ job.demo_id = StatedDemoId(job.input_video)
          /\ job.seed = bundle_args.base_seed + job.demo_id * 1000 + job.variant_idx
          /\ \E f \in bundle_files.requests :
                /\ f.name = job.request_json
                /\ f.payload.job_id = job.job_id
                /\ f.payload.seed = job.seed
                /\ f.payload.local_input_video = job.input_video
                /\ \A g \in bundle_files.requests : g.name = f.name => g = f
    /\ Cardinality(bundle_files.requests) = Len(job_lines)
    /\ \A k \in 1..Len(VideosDone) :
          Cardinality({i \in 1..Len(job_lines) :
                          job_lines[i].input_video = VideosDone[k]})
             = IF Matches(VideosDone[k], stated)
               THEN bundle_args.variants_per_demo ELSE 0
    /\ (bundlePc = "exit" /\ bundleExit = "0") =>
          /\ bundle_files.jobs = job_lines
          /\ Len(job_lines)
                = Cardinality({n \in Range(input_videos) : Matches(n, stated)})
                     * bundle_args.variants_per_demo

\* C23 (as stated): the videos are taken in sorted path order and those
\* whose names do not match demo_<digits>_<camera>.mp4 are skipped; the jobs
\* carry the ids job_000000, job_000001, ... without gap or repeat, there
\* are (number of matching videos) x variants_per_demo of them, and each
\* has exactly one request file and the seed base_seed + demo_id * 1000 +
\* variant_idx.
BundleJobsOfNamesThatMatch == JobsWellFormed(TRUE)

\* The same with the pattern as the code applies it, under which a name
\* that ends in a newline after ".mp4" matches as well.
BundleJobsOfNamesThePatternAccepts == JobsWellFormed(FALSE)

\* The default --video-glob lets no such name in.
BundleJobsOfNamesThatMatchUnderDefaultGlob ==
    bundle_args.video_glob # <<"*">> => JobsWellFormed(TRUE)

\* A finished run over demo_10_front.mp4, demo_1_front.mp4 and a name
\* without a demo number, two variants each: four jobs, those of demo 10
\* first.
BundleTwoVideosWitness ==
    /\ bundlePc = "exit" /\ bundleExit = "0"
    /\ Len(input_videos) = 3
    /\ bundle_args.variants_per_demo = 2 /\ bundle_args.base_seed = 1000
    /\ Len(job_lines) = 4
    /\ job_lines[1].demo_id = 10 /\ job_lines[1].seed = 11000
    /\ job_lines[4].demo_id = 1 /\ job_lines[4].seed = 2001
    /\ job_lines[4].job_id = <<"j", "o", "b", "_", "0", "0", "0", "0", "0", "3">>

\* A finished run has made jobs of a file whose name ends in a newline.
BundleNewlineNameWitness ==
    /\ bundlePc = "exit" /\ bundleExit = "0"
    /\ \E i \in 1..Len(job_lines) :
          /\ job_lines[i].input_video[Len(job_lines[i].input_video)] = NEWLINE
          /\ ~StatedDemoName(job_lines[i].input_video)
          /\ job_lines[i].demo_id = 2

=============================================================================
